---- MODULE Spec2Model ----
(***************************************************************************)
(* Model of the cross-thread bridge of pipewire_graph_egui                  *)
(* (src/src/pipewire_wrapper.rs, src/src/channel.rs, src/src/app.rs).       *)
(*                                                                          *)
(* Two threads: the UI thread (eframe update/on_exit) and the bridge        *)
(* thread spawned by PipewireWrapper::new, which runs the PipeWire main     *)
(* loop.  They share two mpsc queues and the Arc<Mutex<PipewireState>>.     *)
(***************************************************************************)
EXTENDS Integers, Sequences, FiniteSets, TLC

(***************************************************************************)
(* Bounds of the exploration.                                               *)
(***************************************************************************)
MaxCmds == 2     \* messages the UI puts on the command queue in one run
MaxNotif == 1    \* notifications waiting in the bridge -> UI queue
MaxInfos == 4    \* info events of one link in one run
MaxListeners == 2  \* listeners registered on one link proxy
MaxGlobals == 2    \* globals a registry listener is handed, and binds made

(***************************************************************************)
(* Property keys (pipewire::keys) and the protocol type string of Link.     *)
(***************************************************************************)
NODE_ID == "node.id"
PORT_ALIAS == "port.alias"
NODE_NAME == "node.name"
PORT_DIRECTION == "port.direction"
LINK_OUTPUT_NODE == "link.output.node"
LINK_OUTPUT_PORT == "link.output.port"
LINK_INPUT_NODE == "link.input.node"
LINK_INPUT_PORT == "link.input.port"
OBJECT_LINGER == "object.linger"
FACTORY_NAME == "factory.name"
FACTORY_TYPE_NAME == "factory.type.name"

\* enum ObjectType: the variants that name an interface of the daemon
KnownTypes ==
    {"Node", "Port", "Link", "Factory", "Client", "Device", "Module", "Core",
     "Metadata"}

\* the interface names a daemon may send: those of the known variants, and
\* names no variant stands for
UnknownNames == {"PipeWire:Interface:Badger", "Badger"}
InterfaceNames == {"PipeWire:Interface:" \o t : t \in KnownTypes} \cup UnknownNames

\* ObjectType::Other(name)
Other(name) == "Other(" \o name \o ")"

\* ObjectType::to_str
to_str(type_) ==
    IF type_ \in KnownTypes
    THEN "PipeWire:Interface:" \o type_
    ELSE CHOOSE name \in InterfaceNames : type_ = Other(name)

\* ObjectType::from_str
from_str(type_) ==
    IF \E t \in KnownTypes : type_ = "PipeWire:Interface:" \o t
    THEN CHOOSE t \in KnownTypes : type_ = "PipeWire:Interface:" \o t
    ELSE Other(type_)

\* the panic of ObjectType::client_version
InvalidObjectType == [panic |-> "Invalid object type", version |-> 0]

\* ObjectType::client_version
client_version(type_) ==
    IF type_ \in KnownTypes
    THEN [panic |-> "", version |-> 3]
    ELSE InvalidObjectType

\* Option<T>: None is the empty sequence, Some(x) is <<x>>
None == <<>>
Some(x) == <<x>>

\* u32::to_string for the ids of the model
Digit == <<"1", "2", "3", "4", "5", "6", "7", "8", "9">>

RECURSIVE to_string(_)
to_string(n) ==
    IF n = 0 THEN "0"
    ELSE IF n < 10 THEN Digit[n]
    ELSE to_string(n \div 10) \o (IF n % 10 = 0 THEN "0" ELSE Digit[n % 10])

(***************************************************************************)
(* GlobalObject<Properties>: the daemon's advertisements.  props is an     *)
(* Option of a string -> string dictionary.                                 *)
(***************************************************************************)
GlobalObject(id, type_, props) ==
    [id |-> id, permissions |-> "rwxm", type_ |-> type_, version |-> 3,
     props |-> props]

LinkProps(on, op, in, ip) ==
    (LINK_OUTPUT_NODE :> on) @@ (LINK_OUTPUT_PORT :> op) @@
    (LINK_INPUT_NODE :> in) @@ (LINK_INPUT_PORT :> ip)

\* The objects the daemon may advertise in the explored runs.
Universe ==
    { \* the Link factory
      GlobalObject(1, "Factory",
          Some((FACTORY_TYPE_NAME :> "PipeWire:Interface:Link") @@
               (FACTORY_NAME :> "link-factory-0"))),
      \* a factory of another kind
      GlobalObject(1, "Factory",
          Some((FACTORY_TYPE_NAME :> "PipeWire:Interface:Node") @@
               (FACTORY_NAME :> "node-factory-0"))),
      \* a Node that carries the alias of port 5
      GlobalObject(3, "Node",
          Some((PORT_ALIAS :> "a") @@ (NODE_ID :> "3"))),
      \* the two ports of the example of the specification
      GlobalObject(5, "Port",
          Some((NODE_ID :> "2") @@ (PORT_DIRECTION :> "out") @@
               (PORT_ALIAS :> "a"))),
      \* a port that lacks node.id
      GlobalObject(5, "Port",
          Some((PORT_DIRECTION :> "out") @@ (PORT_ALIAS :> "a"))),
      GlobalObject(9, "Port",
          Some((NODE_ID :> "3") @@ (PORT_DIRECTION :> "in") @@
               (PORT_ALIAS :> "b"))),
      \* an object without a property dictionary, of another version and
      \* with other permissions
      [GlobalObject(9, "Port", None) EXCEPT !.permissions = "r", !.version = 4],
      \* the link 2:5 -> 3:9, a link that differs in one value, and a
      \* Node that carries the four link properties and those of a factory
      GlobalObject(7, "Link", Some(LinkProps("2", "5", "3", "9"))),
      GlobalObject(7, "Link", Some(LinkProps("2", "5", "3", "8"))),
      GlobalObject(7, "Node",
          Some(LinkProps("2", "5", "3", "9") @@
               (FACTORY_TYPE_NAME :> "PipeWire:Interface:Link") @@
               (FACTORY_NAME :> "link-factory-7"))) }

Ids == {o.id : o \in Universe}

\* The ids the daemon may report as removed: those and one it never
\* advertised.
RemoveIds == Ids \cup {2}

\* The objects of a plain session: the Link factory, the two ports and
\* the link between them.
Globals ==
    { GlobalObject(1, "Factory",
          Some((FACTORY_TYPE_NAME :> "PipeWire:Interface:Link") @@
               (FACTORY_NAME :> "link-factory-0"))),
      GlobalObject(5, "Port",
          Some((NODE_ID :> "2") @@ (PORT_DIRECTION :> "out") @@
               (PORT_ALIAS :> "a"))),
      GlobalObject(9, "Port",
          Some((NODE_ID :> "3") @@ (PORT_DIRECTION :> "in") @@
               (PORT_ALIAS :> "b"))),
      GlobalObject(7, "Link", Some(LinkProps("2", "5", "3", "9"))) }

GlobalIds == {o.id : o \in Globals}

(***************************************************************************)
(* ChannelMessage (channel.rs), in the form pipewire_wrapper.rs sends and    *)
(* matches them: the registry notifications are sent without a payload.     *)
(***************************************************************************)
PipewireMainLoopStopRequest == [op |-> "PipewireMainLoopStopRequest"]
PipewireMainLoopReady == [op |-> "PipewireMainLoopReady"]
PipewireRegistryGlobal == [op |-> "PipewireRegistryGlobal"]
PipewireRegistryGlobalRemove == [op |-> "PipewireRegistryGlobalRemove"]
LinkCreate(from, to) == [op |-> "LinkCreate", from |-> from, to |-> to]
LinkDestroy(from, to) == [op |-> "LinkDestroy", from |-> from, to |-> to]

\* the descriptors the UI selects (link_from, link_to)
DescA == <<PORT_ALIAS, "a">>
DescB == <<PORT_ALIAS, "b">>

LinkCommands == { LinkCreate(DescA, DescB), LinkDestroy(DescA, DescB) }

Commands ==
    { PipewireMainLoopStopRequest, PipewireMainLoopReady } \cup LinkCommands

VARIABLES
    global_objects,  \* PipewireState.global_objects: id -> GlobalObject
    core_info,       \* PipewireState.core_info is Some
    lock,            \* holder of the Mutex<PipewireState>: "none", "bridge", "ui"
    poisoned,        \* the mutex is poisoned
    pw_queue,        \* UI -> bridge channel (ui_sender / pw_receiver)
    ui_queue,        \* bridge -> UI channel (pw_sender / ui_receiver)
    pc,              \* position of the bridge thread
    message,         \* the message the timer callback has dequeued
    quit_flag,       \* MainLoop::quit was called
    ui,              \* position of the UI thread
    sent,            \* number of messages the UI has enqueued
    done,            \* sequence number of the last message the bridge executed
    lastCall,        \* the most recent call into the daemon connection
    lastReport,      \* the most recent tracing::error! report
    thread_handle,   \* PipewireWrapper.thread_handle is Some
    deinit_count,    \* number of pipewire::deinit calls so far
    quit_result,     \* what the last PipewireWrapper::quit returned
    link_infos,      \* the pw_link_info records the daemon has sent
    link_states,     \* what LinkInfo::state returned for each of them
    callback,        \* the registry or core listener the loop is running
    hooks,           \* the listeners on the link proxy's hook list
    handles,         \* the LinkListener values that are alive
    removals,        \* per listener, the number of spa::hook::remove calls
    running,         \* the listener whose info callback is executing, or 0
    pending,         \* the listeners the current info event has yet to call
    called,          \* the listeners the current info event has called
    freed,           \* a callback ran on after its own closure was freed
    conversions,     \* the ObjectType conversions made so far
    binds,           \* the bind requests sent to the daemon
    graph,           \* state.graph: graph node -> its input and output params
    pipewire_id_to_node_id,  \* app.rs 352: daemon id of a Node -> graph node
    processed        \* the advertisements update() has taken off the queue

\* the fields quit() works on
quit_vars == <<thread_handle, deinit_count, quit_result>>

\* what the link info listener has seen
link_vars == <<link_infos, link_states>>

\* the listener in flight on the registry or the core
callback_vars == <<callback>>

\* the listeners of the link proxy
hook_vars == <<hooks, handles, removals, running, pending, called, freed>>

\* the uses of ObjectType
type_vars == <<conversions, binds>>

\* what the timer callback, the registry listeners and the UI leave alone
\* the node graph of the UI
graph_vars == <<graph, pipewire_id_to_node_id, processed>>

ext_vars == <<callback_vars, hook_vars, type_vars, graph_vars>>

vars == <<global_objects, core_info, lock, poisoned, pw_queue, ui_queue, pc,
          message, quit_flag, ui, sent, done, lastCall, lastReport,
          quit_vars, link_vars, ext_vars>>

NoProps == [k \in {} |-> ""]
NoMessage == [msg |-> [op |-> "none"], seq |-> 0]
NoCall == [op |-> "none", thread |-> "none", guard |-> FALSE, seq |-> 0,
           cmd |-> [op |-> "none"], factory |-> "", props |-> NoProps, id |-> 0]
NoReport == [text |-> "none", seq |-> 0]
NoCallback == [op |-> "none"]

\* the listeners a client registers on one link proxy
Listeners == 1..MaxListeners

(***************************************************************************)
(* PipewireState queries.                                                   *)
(***************************************************************************)
MinOf(S) == CHOOSE x \in S : \A y \in S : x <= y

\* Properties::get
props_get(props, k) == IF k \in DOMAIN props THEN Some(props[k]) ELSE None

\* the dictionaries a closure F: Fn(&Properties) -> bool can be applied to
Dicts(objects) ==
    {objects[i].props[1] : i \in {j \in DOMAIN objects : objects[j].props # None}}

MaxOf(S) == CHOOSE x \in S : \A y \in S : x >= y

\* the scan taking the last match instead of the first
find_object_by_props_last(objects, f) ==
    LET hits == {i \in DOMAIN objects :
                    objects[i].props # None /\ f[objects[i].props[1]]}
    IN IF hits = {} THEN None ELSE Some(objects[MaxOf(hits)])

\* BTreeMap::values().filter(..).next(): the match with the smallest id;
\* the closure f is a function from dictionaries to BOOLEAN
find_object_by_props(objects, f) ==
    LET hits == {i \in DOMAIN objects :
                    objects[i].props # None /\ f[objects[i].props[1]]}
    IN IF hits = {} THEN None ELSE Some(objects[MinOf(hits)])

find_object_by_prop(objects, k, v) ==
    find_object_by_props(objects,
        [props \in Dicts(objects) |->
            \E kk \in DOMAIN props : <<kk, props[kk]>> = <<k, v>>])

\* get_factory_name without the filter on the kind of the object
get_factory_name_any_kind(objects, object_type) ==
    LET hits == {i \in DOMAIN objects :
                    /\ objects[i].props # None
                    /\ FACTORY_TYPE_NAME \in DOMAIN objects[i].props[1]
                    /\ FACTORY_NAME \in DOMAIN objects[i].props[1]
                    /\ objects[i].props[1][FACTORY_TYPE_NAME] = to_str(object_type)}
    IN IF hits = {} THEN None
       ELSE Some(objects[MinOf(hits)].props[1][FACTORY_NAME])

get_factory_name(objects, object_type) ==
    LET hits == {i \in DOMAIN objects :
                    /\ objects[i].type_ = "Factory"
                    /\ objects[i].props # None
                    /\ FACTORY_TYPE_NAME \in DOMAIN objects[i].props[1]
                    /\ FACTORY_NAME \in DOMAIN objects[i].props[1]
                    /\ objects[i].props[1][FACTORY_TYPE_NAME] = to_str(object_type)}
    IN IF hits = {} THEN None
       ELSE Some(objects[MinOf(hits)].props[1][FACTORY_NAME])

\* GlobalObject::to_owned: a field-by-field copy with an owned dictionary
to_owned(object) ==
    [id |-> object.id, permissions |-> object.permissions,
     type_ |-> object.type_, version |-> object.version,
     props |-> IF object.props = None THEN None
               ELSE Some([k \in DOMAIN object.props[1] |-> object.props[1][k]])]

\* a remove that forgets nothing
remove_nothing(objects, id) == objects

\* an insert that keeps the entry the map already has
insert_if_absent(objects, id, object) ==
    [i \in DOMAIN objects \cup {id} |->
        IF i \in DOMAIN objects THEN objects[i] ELSE object]

\* BTreeMap::insert and BTreeMap::remove
insert(objects, id, object) ==
    [i \in DOMAIN objects \cup {id} |-> IF i = id THEN object ELSE objects[i]]

remove(objects, id) == [i \in DOMAIN objects \ {id} |-> objects[i]]

(***************************************************************************)
(* The two closures of the timer callback.                                  *)
(***************************************************************************)
\* link_create_properties with node and port of each end exchanged
link_create_properties_swapped(objects, from, to) ==
    LET object_from == find_object_by_prop(objects, from[1], from[2])
        object_to == find_object_by_prop(objects, to[1], to[2])
    IN IF object_from = None \/ object_to = None THEN None
       ELSE IF object_from[1].props = None \/ object_to[1].props = None THEN None
       ELSE LET output_node == props_get(object_from[1].props[1], NODE_ID)
                output_port == to_string(object_from[1].id)
                input_node == props_get(object_to[1].props[1], NODE_ID)
                input_port == to_string(object_to[1].id)
            IN IF output_node = None \/ input_node = None THEN None
               ELSE Some(LinkProps(output_port, output_node[1],
                                   input_port, input_node[1])
                         @@ (OBJECT_LINGER :> "1"))

\* link_create_properties with a default for a missing node.id
link_create_properties_default(objects, from, to) ==
    LET object_from == find_object_by_prop(objects, from[1], from[2])
        object_to == find_object_by_prop(objects, to[1], to[2])
    IN IF object_from = None \/ object_to = None THEN None
       ELSE IF object_from[1].props = None \/ object_to[1].props = None THEN None
       ELSE LET output_node == props_get(object_from[1].props[1], NODE_ID)
                output_port == to_string(object_from[1].id)
                input_node == props_get(object_to[1].props[1], NODE_ID)
                input_port == to_string(object_to[1].id)
            IN Some(LinkProps(IF output_node = None THEN "0" ELSE output_node[1],
                              output_port,
                              IF input_node = None THEN "0" ELSE input_node[1],
                              input_port)
                    @@ (OBJECT_LINGER :> "1"))

\* LinkCreate: the Option<Properties> sent with create_object
link_create_properties(objects, from, to) ==
    LET object_from == find_object_by_prop(objects, from[1], from[2])
        object_to == find_object_by_prop(objects, to[1], to[2])
    IN IF object_from = None \/ object_to = None THEN None
       ELSE IF object_from[1].props = None \/ object_to[1].props = None THEN None
       ELSE LET output_node == props_get(object_from[1].props[1], NODE_ID)
                output_port == to_string(object_from[1].id)
                input_node == props_get(object_to[1].props[1], NODE_ID)
                input_port == to_string(object_to[1].id)
            IN IF output_node = None \/ input_node = None THEN None
               ELSE Some(LinkProps(output_node[1], output_port,
                                   input_node[1], input_port)
                         @@ (OBJECT_LINGER :> "1"))

\* link_destroy_object_id comparing three of the four link properties
link_destroy_object_id_three(objects, from, to) ==
    LET object_from == find_object_by_prop(objects, from[1], from[2])
        object_to == find_object_by_prop(objects, to[1], to[2])
    IN IF object_from = None \/ object_to = None THEN None
       ELSE IF object_from[1].props = None \/ object_to[1].props = None THEN None
       ELSE LET output_node == props_get(object_from[1].props[1], NODE_ID)
                output_port == to_string(object_from[1].id)
                input_node == props_get(object_to[1].props[1], NODE_ID)
            IN IF output_node = None \/ input_node = None THEN None
               ELSE LET f == [props \in Dicts(objects) |->
                                /\ props_get(props, LINK_OUTPUT_NODE) = output_node
                                /\ props_get(props, LINK_OUTPUT_PORT) = Some(output_port)
                                /\ props_get(props, LINK_INPUT_NODE) = input_node]
                        object == find_object_by_props(objects, f)
                    IN IF object = None THEN None ELSE Some(object[1].id)

\* link_destroy_object_id falling back to the output port when no link matches
link_destroy_object_id_fallback(objects, from, to) ==
    LET object_from == find_object_by_prop(objects, from[1], from[2])
        object_to == find_object_by_prop(objects, to[1], to[2])
    IN IF object_from = None \/ object_to = None THEN None
       ELSE IF object_from[1].props = None \/ object_to[1].props = None THEN None
       ELSE LET output_node == props_get(object_from[1].props[1], NODE_ID)
                output_port == to_string(object_from[1].id)
                input_node == props_get(object_to[1].props[1], NODE_ID)
                input_port == to_string(object_to[1].id)
            IN IF output_node = None \/ input_node = None THEN None
               ELSE LET f == [props \in Dicts(objects) |->
                                /\ props_get(props, LINK_OUTPUT_NODE) = output_node
                                /\ props_get(props, LINK_OUTPUT_PORT) = Some(output_port)
                                /\ props_get(props, LINK_INPUT_NODE) = input_node
                                /\ props_get(props, LINK_INPUT_PORT) = Some(input_port)]
                        object == find_object_by_props(objects, f)
                    IN IF object = None THEN Some(object_from[1].id)
                       ELSE Some(object[1].id)

\* object_id looking for the port ids under the node keys
link_destroy_object_id_swapped(objects, from, to) ==
    LET object_from == find_object_by_prop(objects, from[1], from[2])
        object_to == find_object_by_prop(objects, to[1], to[2])
    IN IF object_from = None \/ object_to = None THEN None
       ELSE IF object_from[1].props = None \/ object_to[1].props = None THEN None
       ELSE LET output_node == props_get(object_from[1].props[1], NODE_ID)
                output_port == to_string(object_from[1].id)
                input_node == props_get(object_to[1].props[1], NODE_ID)
                input_port == to_string(object_to[1].id)
            IN IF output_node = None \/ input_node = None THEN None
               ELSE LET f == [props \in Dicts(objects) |->
                                /\ props_get(props, LINK_OUTPUT_PORT) = output_node
                                /\ props_get(props, LINK_OUTPUT_NODE) = Some(output_port)
                                /\ props_get(props, LINK_INPUT_PORT) = input_node
                                /\ props_get(props, LINK_INPUT_NODE) = Some(input_port)]
                        object == find_object_by_props(objects, f)
                    IN IF object = None THEN None ELSE Some(object[1].id)

\* LinkDestroy: the Option<u32> handed to destroy_global
link_destroy_object_id(objects, from, to) ==
    LET object_from == find_object_by_prop(objects, from[1], from[2])
        object_to == find_object_by_prop(objects, to[1], to[2])
    IN IF object_from = None \/ object_to = None THEN None
       ELSE IF object_from[1].props = None \/ object_to[1].props = None THEN None
       ELSE LET output_node == props_get(object_from[1].props[1], NODE_ID)
                output_port == to_string(object_from[1].id)
                input_node == props_get(object_to[1].props[1], NODE_ID)
                input_port == to_string(object_to[1].id)
            IN IF output_node = None \/ input_node = None THEN None
               ELSE LET f == [props \in Dicts(objects) |->
                                /\ props_get(props, LINK_OUTPUT_NODE) = output_node
                                /\ props_get(props, LINK_OUTPUT_PORT) = Some(output_port)
                                /\ props_get(props, LINK_INPUT_NODE) = input_node
                                /\ props_get(props, LINK_INPUT_PORT) = Some(input_port)]
                        object == find_object_by_props(objects, f)
                    IN IF object = None THEN None ELSE Some(object[1].id)

(***************************************************************************)
(* Threads.                                                                 *)
(***************************************************************************)
\* the thread that runs the timer callback and the listeners
BridgeThread == "bridge"

\* the bridge thread has ended: its closures, and pw_receiver, are dropped
BridgeEnded == pc \in {"stopped", "panicked", "aborted"}

\* the main loop dispatches one source at a time
LoopIdle == pc = "loop"

Call(op, factory, props, id) ==
    [op |-> op, thread |-> BridgeThread, guard |-> (lock = "bridge"),
     seq |-> message.seq, cmd |-> message.msg, factory |-> factory,
     props |-> props, id |-> id]

Init ==
    /\ global_objects = [i \in {} |-> 0]
    /\ core_info = FALSE
    /\ lock = "none"
    /\ poisoned = FALSE
    /\ pw_queue = <<>>
    /\ ui_queue = <<>>
    /\ pc = "spawned"
    /\ message = NoMessage
    /\ quit_flag = FALSE
    /\ ui = "run"
    /\ sent = 0
    /\ done = 0
    /\ lastCall = NoCall
    /\ lastReport = NoReport
    /\ thread_handle = TRUE
    /\ deinit_count = 0
    /\ quit_result = "none"
    /\ link_infos = <<>>
    /\ link_states = <<>>
    /\ callback = NoCallback
    /\ hooks = {}
    /\ handles = {}
    /\ removals = [l \in Listeners |-> 0]
    /\ running = 0
    /\ pending = {}
    /\ called = {}
    /\ freed = FALSE
    /\ conversions = <<>>
    /\ binds = <<>>
    /\ graph = [n \in {} |-> {}]
    /\ pipewire_id_to_node_id = [i \in {} |-> 0]
    /\ processed = {}

\* a panic on the bridge thread outside any callback: the thread unwinds
PanicInThread ==
    /\ pc' = "panicked"
    /\ UNCHANGED <<lock, poisoned, ui>>

\* a panic inside the timer callback, which the loop calls through an
\* extern "C" trampoline while the guard is held: the build either aborts
\* the process or unwinds the thread, dropping (and poisoning) the guard
PanicInCallback ==
    \/ /\ pc' = "aborted"
       /\ ui' = "aborted"
       /\ UNCHANGED <<lock, poisoned>>
    \/ /\ pc' = "panicked"
       /\ lock' = "none"
       /\ poisoned' = TRUE
       /\ UNCHANGED ui

\* the spawned closure up to main_loop.run()
BridgeSetup ==
    /\ pc = "spawned"
    /\ lastCall' = Call("connect", "", NoProps, 0)
    /\ \/ \* connected, registry acquired, listeners registered
          /\ pc' = "loop"
          /\ UNCHANGED <<lock, poisoned, ui>>
       \/ \* one of the unwrap() calls of lines 86-89 panics
          PanicInThread
    /\ UNCHANGED <<global_objects, core_info, pw_queue, ui_queue, message,
                   quit_flag, sent, done, lastReport>>
    /\ UNCHANGED <<quit_vars, link_vars>>
    /\ UNCHANGED ext_vars

\* add_timer callback, line 99: state_.lock().unwrap()
TimerFire ==
    /\ LoopIdle
    /\ lock = "none"
    /\ IF poisoned
       THEN PanicInThread
       ELSE /\ lock' = "bridge"
            /\ pc' = "drain"
            /\ UNCHANGED <<poisoned, ui>>
    /\ UNCHANGED <<global_objects, core_info, pw_queue, ui_queue, message,
                   quit_flag, sent, done, lastCall, lastReport>>
    /\ UNCHANGED <<quit_vars, link_vars>>
    /\ UNCHANGED ext_vars

\* TimerRecv taking the most recent message instead of the oldest
TimerRecvLast ==
    /\ pc = "drain"
    /\ pw_queue # <<>>
    /\ message' = pw_queue[Len(pw_queue)]
    /\ pw_queue' = SubSeq(pw_queue, 1, Len(pw_queue) - 1)
    /\ pc' = "exec"
    /\ UNCHANGED <<global_objects, core_info, lock, poisoned, ui_queue,
                   quit_flag, ui, sent, done, lastCall, lastReport>>
    /\ UNCHANGED <<quit_vars, link_vars>>
    /\ UNCHANGED ext_vars

\* line 100: pw_receiver.try_recv() yields the head of the queue
TimerRecv ==
    /\ pc = "drain"
    /\ pw_queue # <<>>
    /\ message' = Head(pw_queue)
    /\ pw_queue' = Tail(pw_queue)
    /\ pc' = "exec"
    /\ UNCHANGED <<global_objects, core_info, lock, poisoned, ui_queue,
                   quit_flag, ui, sent, done, lastCall, lastReport>>
    /\ UNCHANGED <<quit_vars, link_vars>>
    /\ UNCHANGED ext_vars

\* line 100: try_recv() fails on the empty queue, the callback returns and
\* the guard is dropped; run() returns if quit was requested
TimerReturn ==
    /\ pc = "drain"
    /\ pw_queue = <<>>
    /\ lock' = "none"
    /\ pc' = IF quit_flag THEN "stopped" ELSE "loop"
    /\ UNCHANGED <<global_objects, core_info, poisoned, pw_queue, ui_queue,
                   message, quit_flag, ui, sent, done, lastCall,
                   lastReport>>
    /\ UNCHANGED <<quit_vars, link_vars>>
    /\ UNCHANGED ext_vars

\* the stop request clearing the mirror on its way out
ExecStopRequestClear ==
    /\ pc = "exec"
    /\ message.msg.op = "PipewireMainLoopStopRequest"
    /\ lastCall' = Call("quit", "", NoProps, 0)
    /\ quit_flag' = TRUE
    /\ done' = message.seq
    /\ pc' = "drain"
    /\ global_objects' = [i \in {} |-> 0]
    /\ UNCHANGED <<core_info, lock, poisoned, pw_queue,
                   ui_queue, message, ui, sent, lastReport>>
    /\ UNCHANGED <<quit_vars, link_vars>>
    /\ UNCHANGED ext_vars

\* lines 102-104
ExecStopRequest ==
    /\ pc = "exec"
    /\ message.msg.op = "PipewireMainLoopStopRequest"
    /\ lastCall' = Call("quit", "", NoProps, 0)
    /\ quit_flag' = TRUE
    /\ done' = message.seq
    /\ pc' = "drain"
    /\ UNCHANGED <<global_objects, core_info, lock, poisoned, pw_queue,
                   ui_queue, message, ui, sent, lastReport>>
    /\ UNCHANGED <<quit_vars, link_vars>>
    /\ UNCHANGED ext_vars

\* lines 105-139
ExecLinkCreate ==
    /\ pc = "exec"
    /\ message.msg.op = "LinkCreate"
    /\ LET properties == link_create_properties(global_objects,
                                                message.msg.from, message.msg.to)
           factory == get_factory_name(global_objects, "Link")
       IN IF properties = None
          THEN /\ lastReport' = [text |-> "LinkCreate not found", seq |-> message.seq]
               /\ done' = message.seq
               /\ pc' = "drain"
               /\ UNCHANGED <<lock, poisoned, ui, lastCall>>
          ELSE IF factory = None
          THEN /\ PanicInCallback
               /\ UNCHANGED <<done, lastCall, lastReport>>
          ELSE /\ lastCall' = Call("create_object", factory[1], properties[1], 0)
               /\ UNCHANGED lastReport
               /\ \/ \* the call returns the proxy
                     /\ done' = message.seq
                     /\ pc' = "drain"
                     /\ UNCHANGED <<lock, poisoned, ui>>
                  \/ \* the call fails and unwrap() panics
                     /\ PanicInCallback
                     /\ UNCHANGED done
    /\ UNCHANGED <<global_objects, core_info, pw_queue, ui_queue, message,
                   quit_flag, sent>>
    /\ UNCHANGED <<quit_vars, link_vars>>
    /\ UNCHANGED ext_vars

\* lines 140-166
ExecLinkDestroy ==
    /\ pc = "exec"
    /\ message.msg.op = "LinkDestroy"
    /\ LET object_id == link_destroy_object_id(global_objects,
                                               message.msg.from, message.msg.to)
       IN IF object_id = None
          THEN /\ lastReport' = [text |-> "LinkDestroy not found", seq |-> message.seq]
               /\ done' = message.seq
               /\ pc' = "drain"
               /\ UNCHANGED <<lock, poisoned, ui, lastCall>>
          ELSE /\ lastCall' = Call("destroy_global", "", NoProps, object_id[1])
               /\ UNCHANGED lastReport
               /\ \/ \* the call succeeds
                     /\ done' = message.seq
                     /\ pc' = "drain"
                     /\ UNCHANGED <<lock, poisoned, ui>>
                  \/ \* the call fails and unwrap() panics
                     /\ PanicInCallback
                     /\ UNCHANGED done
    /\ UNCHANGED <<global_objects, core_info, pw_queue, ui_queue, message,
                   quit_flag, sent>>
    /\ UNCHANGED <<quit_vars, link_vars>>
    /\ UNCHANGED ext_vars

\* the catch-all arm taking any other message for a stop request
ExecOtherAsStop ==
    /\ pc = "exec"
    /\ message.msg.op \notin {"PipewireMainLoopStopRequest", "LinkCreate", "LinkDestroy"}
    /\ lastCall' = Call("quit", "", NoProps, 0)
    /\ quit_flag' = TRUE
    /\ done' = message.seq
    /\ pc' = "drain"
    /\ UNCHANGED <<global_objects, core_info, lock, poisoned, pw_queue,
                   ui_queue, message, ui, sent, lastReport>>
    /\ UNCHANGED <<quit_vars, link_vars>>
    /\ UNCHANGED ext_vars

\* line 167: any other message
ExecOther ==
    /\ pc = "exec"
    /\ message.msg.op \notin {"PipewireMainLoopStopRequest", "LinkCreate", "LinkDestroy"}
    /\ done' = message.seq
    /\ pc' = "drain"
    /\ UNCHANGED <<global_objects, core_info, lock, poisoned, pw_queue,
                   ui_queue, message, quit_flag, ui, sent, lastCall,
                   lastReport>>
    /\ UNCHANGED <<quit_vars, link_vars>>
    /\ UNCHANGED ext_vars

\* lines 184-189: core info listener
OnCoreInfo ==
    /\ LoopIdle
    /\ lock = "none"
    /\ Len(ui_queue) < MaxNotif
    /\ core_info' = TRUE
    /\ ui_queue' = Append(ui_queue, PipewireMainLoopReady)
    /\ UNCHANGED <<global_objects, lock, poisoned, pw_queue, pc, message,
                   quit_flag, ui, sent, done, lastCall, lastReport>>
    /\ UNCHANGED <<quit_vars, link_vars>>
    /\ UNCHANGED ext_vars

\* lines 208-218: registry global listener
OnGlobal(global_object) ==
    /\ LoopIdle
    /\ lock = "none"
    /\ Len(ui_queue) < MaxNotif
    /\ global_objects' = insert(global_objects, global_object.id, to_owned(global_object))
    /\ ui_queue' = Append(ui_queue, PipewireRegistryGlobal)
    /\ UNCHANGED <<core_info, lock, poisoned, pw_queue, pc, message,
                   quit_flag, ui, sent, done, lastCall, lastReport>>
    /\ UNCHANGED <<quit_vars, link_vars>>
    /\ UNCHANGED ext_vars

\* lines 219-229: registry global_remove listener
OnGlobalRemove(global_remove_id) ==
    /\ LoopIdle
    /\ lock = "none"
    /\ Len(ui_queue) < MaxNotif
    /\ global_objects' = remove(global_objects, global_remove_id)
    /\ ui_queue' = Append(ui_queue, PipewireRegistryGlobalRemove)
    /\ UNCHANGED <<core_info, lock, poisoned, pw_queue, pc, message,
                   quit_flag, ui, sent, done, lastCall, lastReport>>
    /\ UNCHANGED <<quit_vars, link_vars>>
    /\ UNCHANGED ext_vars

(***************************************************************************)
(* The core and registry listeners statement by statement: the statement    *)
(* that locks, writes and drops its temporary guard, then the send.  No     *)
(* other thread can see inside the first statement, so it is one step; the  *)
(* UI can run between the two.  OnCoreInfo, OnGlobal and OnGlobalRemove     *)
(* above are these listeners without a UI step in between.                  *)
(***************************************************************************)
ListenerFrame ==
    UNCHANGED <<poisoned, pw_queue, message, quit_flag, ui, sent, done,
                lastCall, lastReport, quit_vars, link_vars, hook_vars,
                type_vars, graph_vars>>

\* the core info listener forgetting to store the info
OnCoreInfoWriteSkip ==
    /\ LoopIdle
    /\ lock = "none"
    /\ Len(ui_queue) < MaxNotif
    /\ pc' = "listener"
    /\ callback' = [op |-> "info"]
    /\ UNCHANGED <<core_info, global_objects, lock, ui_queue>>
    /\ ListenerFrame

\* line 185: state_.lock().unwrap().core_info = Some(..);
OnCoreInfoWrite ==
    /\ LoopIdle
    /\ lock = "none"
    /\ Len(ui_queue) < MaxNotif
    /\ core_info' = TRUE
    /\ pc' = "listener"
    /\ callback' = [op |-> "info"]
    /\ UNCHANGED <<global_objects, lock, ui_queue>>
    /\ ListenerFrame

\* lines 186-188: pw_sender_1.send(PipewireMainLoopReady).unwrap()
OnCoreInfoSend ==
    /\ pc = "listener"
    /\ callback.op = "info"
    /\ ui_queue' = Append(ui_queue, PipewireMainLoopReady)
    /\ pc' = "loop"
    /\ callback' = NoCallback
    /\ UNCHANGED <<global_objects, core_info, lock>>
    /\ ListenerFrame

\* the global listener binding the guard to a variable that lives to the
\* end of the closure
OnGlobalWriteKeepGuard(global_object) ==
    /\ LoopIdle
    /\ lock = "none"
    /\ Len(ui_queue) < MaxNotif
    /\ global_objects' = insert(global_objects, global_object.id, to_owned(global_object))
    /\ lock' = "bridge"
    /\ pc' = "listener"
    /\ callback' = [op |-> "global", id |-> global_object.id,
                    object |-> to_owned(global_object)]
    /\ UNCHANGED <<core_info, ui_queue>>
    /\ ListenerFrame

\* lines 210-214: state_1.lock().unwrap().global_objects.insert(..);
OnGlobalWrite(global_object) ==
    /\ LoopIdle
    /\ lock = "none"
    /\ Len(ui_queue) < MaxNotif
    /\ global_objects' = insert(global_objects, global_object.id, to_owned(global_object))
    /\ pc' = "listener"
    /\ callback' = [op |-> "global", id |-> global_object.id,
                    object |-> to_owned(global_object)]
    /\ UNCHANGED <<core_info, lock, ui_queue>>
    /\ ListenerFrame

\* lines 215-217: pw_sender_1.send(PipewireRegistryGlobal).unwrap()
OnGlobalSend ==
    /\ pc = "listener"
    /\ callback.op = "global"
    /\ ui_queue' = Append(ui_queue, PipewireRegistryGlobal)
    /\ pc' = "loop"
    /\ callback' = NoCallback
    /\ UNCHANGED <<global_objects, core_info, lock>>
    /\ ListenerFrame

\* the global_remove listener unwrapping the entry it removed
OnGlobalRemoveWriteStrict(global_remove_id) ==
    /\ LoopIdle
    /\ lock = "none"
    /\ Len(ui_queue) < MaxNotif
    /\ global_objects' = remove(global_objects, global_remove_id)
    /\ pc' = IF global_remove_id \in DOMAIN global_objects
             THEN "listener" ELSE "panicked"
    /\ poisoned' = (global_remove_id \notin DOMAIN global_objects)
    /\ callback' = [op |-> "global_remove", id |-> global_remove_id]
    /\ UNCHANGED <<core_info, lock, ui_queue>>
    /\ UNCHANGED <<pw_queue, message, quit_flag, ui, sent, done,
                   lastCall, lastReport, quit_vars, link_vars, hook_vars,
                   type_vars, graph_vars>>

\* lines 221-225: state_2.lock().unwrap().global_objects.remove(..);
OnGlobalRemoveWrite(global_remove_id) ==
    /\ LoopIdle
    /\ lock = "none"
    /\ Len(ui_queue) < MaxNotif
    /\ global_objects' = remove(global_objects, global_remove_id)
    /\ pc' = "listener"
    /\ callback' = [op |-> "global_remove", id |-> global_remove_id]
    /\ UNCHANGED <<core_info, lock, ui_queue>>
    /\ ListenerFrame

\* lines 226-228: pw_sender_2.send(PipewireRegistryGlobalRemove).unwrap()
OnGlobalRemoveSend ==
    /\ pc = "listener"
    /\ callback.op = "global_remove"
    /\ ui_queue' = Append(ui_queue, PipewireRegistryGlobalRemove)
    /\ pc' = "loop"
    /\ callback' = NoCallback
    /\ UNCHANGED <<global_objects, core_info, lock>>
    /\ ListenerFrame

(***************************************************************************)
(* The UI thread (app.rs).                                                  *)
(***************************************************************************)
\* UiSend calling the daemon from the UI thread instead of enqueueing
UiSendDirect(cmd) ==
    /\ ui = "run"
    /\ sent < MaxCmds
    /\ sent' = sent + 1
    /\ lastCall' = [op |-> "create_object", thread |-> "ui", guard |-> FALSE,
                    seq |-> sent + 1, cmd |-> cmd, factory |-> "",
                    props |-> NoProps, id |-> 0]
    /\ UNCHANGED <<global_objects, core_info, lock, poisoned, pw_queue,
                   ui_queue, pc, message, quit_flag, ui, done, lastReport>>
    /\ UNCHANGED <<quit_vars, link_vars>>
    /\ UNCHANGED ext_vars

\* channel_sender.send(..).unwrap(), app.rs 659-682
UiSend(cmd) ==
    /\ ui = "run"
    /\ sent < MaxCmds
    /\ IF BridgeEnded
       THEN /\ ui' = "panicked"
            /\ UNCHANGED <<pw_queue, sent>>
       ELSE /\ pw_queue' = Append(pw_queue, [msg |-> cmd, seq |-> sent + 1])
            /\ sent' = sent + 1
            /\ UNCHANGED ui
    /\ UNCHANGED <<global_objects, core_info, lock, poisoned, ui_queue, pc,
                   message, quit_flag, done, lastCall, lastReport>>
    /\ UNCHANGED <<quit_vars, link_vars>>
    /\ UNCHANGED ext_vars

\* channel_receiver.try_recv(), app.rs 397
UiRecv ==
    /\ ui = "run"
    /\ ui_queue # <<>>
    /\ ui_queue' = Tail(ui_queue)
    /\ UNCHANGED <<global_objects, core_info, lock, poisoned, pw_queue, pc,
                   message, quit_flag, ui, sent, done, lastCall,
                   lastReport>>
    /\ UNCHANGED <<quit_vars, link_vars>>
    /\ UNCHANGED ext_vars

\* state.lock().unwrap(), app.rs 550, 604, 636
UiLock ==
    /\ ui = "run"
    /\ lock = "none"
    /\ IF poisoned
       THEN /\ ui' = "panicked"
            /\ UNCHANGED lock
       ELSE /\ ui' = "reading"
            /\ lock' = "ui"
    /\ UNCHANGED <<global_objects, core_info, poisoned, pw_queue, ui_queue,
                   pc, message, quit_flag, sent, done, lastCall,
                   lastReport>>
    /\ UNCHANGED <<quit_vars, link_vars>>
    /\ UNCHANGED ext_vars

\* the guard goes out of scope
UiUnlock ==
    /\ ui = "reading"
    /\ ui' = "run"
    /\ lock' = "none"
    /\ UNCHANGED <<global_objects, core_info, poisoned, pw_queue, ui_queue,
                   pc, message, quit_flag, sent, done, lastCall,
                   lastReport>>
    /\ UNCHANGED <<quit_vars, link_vars>>
    /\ UNCHANGED ext_vars

\* PipewireWrapper::quit, lines 244-245, called by on_exit (app.rs 385),
\* which unwraps the result
UiQuit ==
    /\ ui = "run"
    /\ IF BridgeEnded
       THEN \* send fails: quit returns the error before take()
            /\ ui' = "panicked"
            /\ quit_result' = "err"
            /\ UNCHANGED <<pw_queue, sent>>
       ELSE /\ pw_queue' = Append(pw_queue,
                                  [msg |-> PipewireMainLoopStopRequest, seq |-> sent + 1])
            /\ sent' = sent + 1
            /\ ui' = "joining"
            /\ UNCHANGED quit_result
    /\ UNCHANGED <<global_objects, core_info, lock, poisoned, ui_queue, pc,
                   message, quit_flag, done, lastCall, lastReport>>
    /\ UNCHANGED <<thread_handle, deinit_count, link_vars>>
    /\ UNCHANGED ext_vars

\* PipewireWrapper::quit, lines 248-258: take the handle, join, then deinit
UiJoin ==
    /\ ui = "joining"
    /\ IF ~thread_handle
       THEN \* take() gives None: "invalid thread_handle"
            /\ ui' = "panicked"
            /\ quit_result' = "err"
            /\ UNCHANGED <<thread_handle, deinit_count>>
       ELSE /\ pc \in {"stopped", "panicked"}
            /\ thread_handle' = FALSE
            /\ IF pc = "stopped"
               THEN /\ deinit_count' = deinit_count + 1
                    /\ quit_result' = "ok"
                    /\ ui' = "exited"
               ELSE \* "join error"
                    /\ quit_result' = "err"
                    /\ ui' = "panicked"
                    /\ UNCHANGED deinit_count
    /\ UNCHANGED <<global_objects, core_info, lock, poisoned, pw_queue,
                   ui_queue, pc, message, quit_flag, sent, done,
                   lastCall, lastReport, link_vars>>
    /\ UNCHANGED ext_vars

\* quit() deinitialising whatever send and take() return
UiQuitAgainDeinit ==
    /\ ui = "exited"
    /\ quit_result = "ok"
    /\ deinit_count' = deinit_count + 1
    /\ quit_result' = "err"
    /\ UNCHANGED <<global_objects, core_info, lock, poisoned, ui_queue, pc,
                   message, quit_flag, done, lastCall, lastReport,
                   pw_queue, sent, ui, thread_handle, link_vars>>
    /\ UNCHANGED ext_vars

\* PipewireWrapper::quit called once more on a wrapper whose quit() has
\* returned Ok: lines 244-245 again
UiQuitAgain ==
    /\ ui = "exited"
    /\ quit_result = "ok"
    /\ IF BridgeEnded
       THEN /\ quit_result' = "err"
            /\ UNCHANGED <<pw_queue, sent, ui>>
       ELSE /\ pw_queue' = Append(pw_queue,
                                  [msg |-> PipewireMainLoopStopRequest, seq |-> sent + 1])
            /\ sent' = sent + 1
            /\ ui' = "joining"
            /\ UNCHANGED quit_result
    /\ UNCHANGED <<global_objects, core_info, lock, poisoned, ui_queue, pc,
                   message, quit_flag, done, lastCall, lastReport>>
    /\ UNCHANGED <<thread_handle, deinit_count, link_vars>>
    /\ UNCHANGED ext_vars

(***************************************************************************)
(* The link proxy (link.rs): LinkInfo::state and the info listener.         *)
(***************************************************************************)
\* pw_sys::pw_link_state_*, the values of enum pw_link_state
PW_LINK_STATE_ERROR == -2
PW_LINK_STATE_UNLINKED == -1
PW_LINK_STATE_INIT == 0
PW_LINK_STATE_NEGOTIATING == 1
PW_LINK_STATE_ALLOCATING == 2
PW_LINK_STATE_PAUSED == 3
PW_LINK_STATE_ACTIVE == 4

\* the raw states of the explored runs: the seven values and one on each side
RawStates == (PW_LINK_STATE_ERROR - 1) .. (PW_LINK_STATE_ACTIVE + 1)

\* the error strings a link in the Error state may carry
Errors == {"no route", "busy"}

\* pw_link_info, as far as state() reads it
LinkInfos ==
    {[state |-> r, error |-> e] : r \in RawStates \ {PW_LINK_STATE_ERROR}, e \in {""}}
    \cup {[state |-> PW_LINK_STATE_ERROR, error |-> e] : e \in Errors}

\* enum LinkState
LinkState(variant) == [variant |-> variant]
LinkStateError(error) == [variant |-> "Error", message |-> error]

\* the arm `_ => panic!("Invalid link state: {}", raw_state)`
InvalidLinkState == [variant |-> "panic!"]

\* LinkInfo::state with the arms of Allocating and Paused exchanged
state_exchanged(info) ==
    CASE info.state = PW_LINK_STATE_ERROR -> LinkStateError(info.error)
      [] info.state = PW_LINK_STATE_UNLINKED -> LinkState("Unlinked")
      [] info.state = PW_LINK_STATE_INIT -> LinkState("Init")
      [] info.state = PW_LINK_STATE_NEGOTIATING -> LinkState("Negotiating")
      [] info.state = PW_LINK_STATE_ALLOCATING -> LinkState("Paused")
      [] info.state = PW_LINK_STATE_PAUSED -> LinkState("Allocating")
      [] info.state = PW_LINK_STATE_ACTIVE -> LinkState("Active")
      [] OTHER -> InvalidLinkState

\* LinkInfo::state, lines 172-187
state(info) ==
    CASE info.state = PW_LINK_STATE_ERROR -> LinkStateError(info.error)
      [] info.state = PW_LINK_STATE_UNLINKED -> LinkState("Unlinked")
      [] info.state = PW_LINK_STATE_INIT -> LinkState("Init")
      [] info.state = PW_LINK_STATE_NEGOTIATING -> LinkState("Negotiating")
      [] info.state = PW_LINK_STATE_ALLOCATING -> LinkState("Allocating")
      [] info.state = PW_LINK_STATE_PAUSED -> LinkState("Paused")
      [] info.state = PW_LINK_STATE_ACTIVE -> LinkState("Active")
      [] OTHER -> InvalidLinkState

\* a panic inside a listener, which the loop calls through the extern "C"
\* function link_events_info: the build either aborts the process or
\* unwinds the bridge thread; no guard is held
PanicInListener ==
    \/ /\ pc' = "aborted"
       /\ ui' = "aborted"
    \/ /\ pc' = "panicked"
       /\ UNCHANGED ui

\* link_events_info, lines 93-100, with an info callback that reads
\* info.state() as the Debug implementation of lines 216-231 does
OnLinkInfo(info) ==
    /\ LoopIdle
    /\ Len(link_infos) < MaxInfos
    /\ link_infos' = Append(link_infos, info)
    /\ IF state(info) = InvalidLinkState
       THEN /\ PanicInListener
            /\ UNCHANGED link_states
       ELSE /\ link_states' = Append(link_states, state(info))
            /\ UNCHANGED <<pc, ui>>
    /\ UNCHANGED <<global_objects, core_info, lock, poisoned, pw_queue,
                   ui_queue, message, quit_flag, sent, done, lastCall,
                   lastReport, quit_vars>>
    /\ UNCHANGED ext_vars

Next ==
    \/ BridgeSetup
    \/ TimerFire
    \/ TimerRecv
    \/ TimerReturn
    \/ ExecStopRequest
    \/ ExecLinkCreate
    \/ ExecLinkDestroy
    \/ ExecOther
    \/ OnCoreInfo
    \/ \E global_object \in Globals : OnGlobal(global_object)
    \/ \E global_remove_id \in GlobalIds : OnGlobalRemove(global_remove_id)
    \/ \E cmd \in Commands : UiSend(cmd)
    \/ UiRecv
    \/ UiLock
    \/ UiUnlock
    \/ UiQuit
    \/ UiJoin
    \/ UiQuitAgain

\* The whole bridge in a plain session.
Spec == Init /\ [][Next]_vars

\* The link commands against everything the daemon may advertise.
LinkNext ==
    \/ BridgeSetup
    \/ TimerFire
    \/ TimerRecv
    \/ TimerReturn
    \/ ExecLinkCreate
    \/ ExecLinkDestroy
    \/ OnCoreInfo
    \/ \E global_object \in Universe : OnGlobal(global_object)
    \/ \E global_remove_id \in Ids : OnGlobalRemove(global_remove_id)
    \/ \E cmd \in LinkCommands : UiSend(cmd)
    \/ UiRecv

\* The plain session where the poll timer keeps firing, a callback that has
\* started runs to its end, and join returns once the thread has ended.
FairSpec ==
    /\ Spec
    /\ WF_vars(BridgeSetup)
    /\ SF_vars(TimerFire)
    /\ WF_vars(TimerRecv)
    /\ WF_vars(TimerReturn)
    /\ WF_vars(ExecStopRequest \/ ExecLinkCreate \/ ExecLinkDestroy \/ ExecOther)
    /\ WF_vars(UiUnlock)
    /\ WF_vars(UiJoin)

LinkSpec == Init /\ [][LinkNext]_vars

\* The registry listeners against everything the daemon may advertise,
\* with a UI that asks for the link to be destroyed.
MirrorNext ==
    \/ BridgeSetup
    \/ TimerFire
    \/ TimerRecv
    \/ TimerReturn
    \/ ExecLinkDestroy
    \/ \E global_object \in Universe : OnGlobal(global_object)
    \/ \E global_remove_id \in Ids : OnGlobalRemove(global_remove_id)
    \/ UiSend(LinkDestroy(DescA, DescB))
    \/ UiRecv

MirrorSpec == Init /\ [][MirrorNext]_vars

\* The listeners of the core and the registry, statement by statement,
\* against a UI that polls the notifications and reads the mirror.
NotifyNext ==
    \/ BridgeSetup
    \/ OnCoreInfoWrite
    \/ OnCoreInfoSend
    \/ \E global_object \in Universe : OnGlobalWrite(global_object)
    \/ OnGlobalSend
    \/ \E global_remove_id \in RemoveIds : OnGlobalRemoveWrite(global_remove_id)
    \/ OnGlobalRemoveSend
    \/ UiRecv
    \/ UiLock
    \/ UiUnlock

NotifySpec == Init /\ [][NotifyNext]_vars

\* One link proxy with an info listener on a connected bridge.
LinkInfoNext ==
    \/ BridgeSetup
    \/ \E info \in LinkInfos : OnLinkInfo(info)

LinkInfoSpec == Init /\ [][LinkInfoNext]_vars

(***************************************************************************)
(* Properties.                                                              *)
(***************************************************************************)
RemoteOps == {"create_object", "destroy_global", "quit"}

\* a registry or core listener has run in this step
NotificationRan ==
    \/ global_objects' # global_objects
    \/ core_info' # core_info
    \/ Len(ui_queue') > Len(ui_queue)

\* C1: commands are executed in the order they were enqueued, one at a time:
\* the message that completes is the one dequeued and carries the next
\* sequence number, a message is dequeued only when the previous one has
\* completed, and no listener runs between the dequeue and the completion.
C1_FifoRunToCompletion ==
    [][ /\ (done' # done =>
              pc = "exec" /\ message.seq = done + 1 /\ done' = message.seq)
        /\ (message' # message =>
              pc = "drain" /\ message.seq = done /\ message'.seq = done + 1)
        /\ (pc = "exec" => ~NotificationRan) ]_vars

\* C1 witness: the second command is being executed while a third waits and
\* notifications have already been delivered
C1_Witness ==
    /\ pc = "exec"
    /\ message.seq = 2
    /\ Len(pw_queue) = 1
    /\ DOMAIN global_objects # {}
    /\ core_info

\* C2: no remote call is made while the bridge holds the guard of the mirror.
C2_NoGuardAcrossCall ==
    lastCall.op \in RemoteOps => ~lastCall.guard

\* a step of the UI thread
UiStep ==
    \/ sent' # sent
    \/ Len(ui_queue') < Len(ui_queue)
    \/ (lock = "ui") # (lock' = "ui")
    \/ (ui' # ui /\ ui' # "aborted")

\* C3: every call into the daemon connection is made by the bridge thread,
\* and a step of the UI thread only appends to the command queue, takes from
\* the notification queue or takes and releases the guard of the mirror.
C3_OnlyBridgeCalls ==
    [][ /\ (lastCall' # lastCall =>
              lastCall'.thread = "bridge" /\ pc \in {"spawned", "exec"} /\ ~UiStep)
        /\ (UiStep =>
              /\ UNCHANGED <<global_objects, core_info, poisoned, pc, message,
                             quit_flag, done, lastCall, lastReport>>
              /\ \/ pw_queue' = pw_queue
                 \/ /\ Len(pw_queue') = Len(pw_queue) + 1
                    /\ SubSeq(pw_queue', 1, Len(pw_queue)) = pw_queue
              /\ \/ ui_queue' = ui_queue
                 \/ ui_queue # <<>> /\ ui_queue' = Tail(ui_queue)) ]_vars

\* C3 witness: the bridge has issued a creation call for a command the UI
\* enqueued, and the UI is reading the mirror under the guard
C3_Witness ==
    /\ lastCall.op = "create_object"
    /\ lastCall.thread = "bridge"
    /\ ui = "reading"
    /\ sent = 2

(***************************************************************************)
(* Endpoints and links as the claims speak of them.                         *)
(***************************************************************************)
\* the object carries the key/value pair of the descriptor
Carries(object, desc) ==
    /\ object.props # None
    /\ desc[1] \in DOMAIN object.props[1]
    /\ object.props[1][desc[1]] = desc[2]

\* id is the endpoint of desc: the first object, in id order, that carries it
IsEndpoint(objects, id, desc) ==
    /\ id \in DOMAIN objects
    /\ Carries(objects[id], desc)
    /\ \A j \in DOMAIN objects : Carries(objects[j], desc) => id <= j

\* id is an endpoint of desc that declares its node
Resolves(objects, id, desc) ==
    /\ IsEndpoint(objects, id, desc)
    /\ NODE_ID \in DOMAIN objects[id].props[1]

\* the object's four link properties are those of the link from f to t
IsLinkOf(objects, object, f, t) ==
    /\ object.props # None
    /\ {LINK_OUTPUT_NODE, LINK_OUTPUT_PORT, LINK_INPUT_NODE, LINK_INPUT_PORT}
          \subseteq DOMAIN object.props[1]
    /\ object.props[1][LINK_OUTPUT_NODE] = objects[f].props[1][NODE_ID]
    /\ object.props[1][LINK_OUTPUT_PORT] = to_string(f)
    /\ object.props[1][LINK_INPUT_NODE] = objects[t].props[1][NODE_ID]
    /\ object.props[1][LINK_INPUT_PORT] = to_string(t)

\* some object of the mirror is a link between the endpoints of the command
LinkPresent(objects, cmd) ==
    \E f, t, l \in DOMAIN objects :
        /\ Resolves(objects, f, cmd.from)
        /\ Resolves(objects, t, cmd.to)
        /\ IsLinkOf(objects, objects[l], f, t)

BothResolve(objects, cmd) ==
    \E f, t \in DOMAIN objects :
        Resolves(objects, f, cmd.from) /\ Resolves(objects, t, cmd.to)

LinkFactoryPresent(objects) ==
    \E i \in DOMAIN objects :
        /\ objects[i].type_ = "Factory"
        /\ objects[i].props # None
        /\ {FACTORY_TYPE_NAME, FACTORY_NAME} \subseteq DOMAIN objects[i].props[1]
        /\ objects[i].props[1][FACTORY_TYPE_NAME] = "PipeWire:Interface:Link"

\* the timer callback finishes the message it had dequeued
Executes(op) == pc = "exec" /\ message.msg.op = op /\ pc' # "exec"

CreateIssued == lastCall' # lastCall /\ lastCall'.op = "create_object"
DestroyIssued == lastCall' # lastCall /\ lastCall'.op = "destroy_global"

\* the mirror holds the two ports of the example and no other carrier of
\* their aliases
ExamplePorts ==
    /\ {5, 9} \subseteq DOMAIN global_objects
    /\ 3 \notin DOMAIN global_objects
    /\ global_objects[5].type_ = "Port"
    /\ global_objects[5].props =
          Some((NODE_ID :> "2") @@ (PORT_DIRECTION :> "out") @@ (PORT_ALIAS :> "a"))
    /\ global_objects[9].type_ = "Port"
    /\ global_objects[9].props =
          Some((NODE_ID :> "3") @@ (PORT_DIRECTION :> "in") @@ (PORT_ALIAS :> "b"))

\* C4: a destroy is issued only for an object of the mirror whose four link
\* properties all equal the values derived from the resolved endpoints of the
\* command; an object that agrees on fewer is not destroyed.
C4_DestroyNeedsFourMatches ==
    [][ DestroyIssued =>
          /\ Executes("LinkDestroy")
          /\ lastCall'.id \in DOMAIN global_objects
          /\ \E f, t \in DOMAIN global_objects :
                /\ Resolves(global_objects, f, message.msg.from)
                /\ Resolves(global_objects, t, message.msg.to)
                /\ IsLinkOf(global_objects, global_objects[lastCall'.id], f, t) ]_vars

\* C4 witness: LinkCreate and then LinkDestroy were executed in one poll while
\* object 7 agreed with the endpoints on three of the four properties; the
\* destroy was answered with "not found"
C4_Witness ==
    /\ ExamplePorts
    /\ 7 \in DOMAIN global_objects
    /\ global_objects[7].props = Some(LinkProps("2", "5", "3", "8"))
    /\ lastCall.op = "create_object"
    /\ lastReport = [text |-> "LinkDestroy not found", seq |-> lastCall.seq + 1]
    /\ done = lastReport.seq
    /\ pc = "drain"

\* C5: of two LinkDestroy commands for the same pair, where the first issued
\* the destroy and the second is executed when no object of the mirror is a
\* link of the pair any more, the second issues no call and reports "not
\* found" once, and the first reported nothing: one call, one report.
C5_SecondDestroyReportsOnce ==
    [][ ( /\ Executes("LinkDestroy")
          /\ lastCall.op = "destroy_global"
          /\ lastCall.cmd = message.msg
          /\ lastCall.seq + 1 = message.seq
          /\ lastCall.id \notin DOMAIN global_objects
          /\ ~LinkPresent(global_objects, message.msg) )
        => /\ lastCall' = lastCall
           /\ lastReport.seq < lastCall.seq
           /\ lastReport' = [text |-> "LinkDestroy not found", seq |-> message.seq]
      ]_vars

\* C5 witness: the first destroy was called for an id that has since left the
\* mirror, and the second, with both ports still resolving, reported
C5_Witness ==
    /\ ExamplePorts
    /\ lastCall.op = "destroy_global"
    /\ lastCall.id \notin DOMAIN global_objects
    /\ lastReport = [text |-> "LinkDestroy not found", seq |-> lastCall.seq + 1]
    /\ done = lastReport.seq

\* C6: the creation call carries exactly the node.id of the 'from' endpoint,
\* the id of the 'from' endpoint, the node.id of the 'to' endpoint, the id of
\* the 'to' endpoint and object.linger = "1", and it is issued whenever both
\* descriptors resolve and the Link factory is known; for the ports 5 and 9
\* of the example the values are 2, 5, 3, 9.
C6_CreateCarriesEndpoints ==
    [][ /\ CreateIssued =>
            /\ Executes("LinkCreate")
            /\ \E f, t \in DOMAIN global_objects :
                  /\ Resolves(global_objects, f, message.msg.from)
                  /\ Resolves(global_objects, t, message.msg.to)
                  /\ DOMAIN lastCall'.props =
                        {LINK_OUTPUT_NODE, LINK_OUTPUT_PORT, LINK_INPUT_NODE,
                         LINK_INPUT_PORT, OBJECT_LINGER}
                  /\ lastCall'.props[LINK_OUTPUT_NODE] = global_objects[f].props[1][NODE_ID]
                  /\ lastCall'.props[LINK_OUTPUT_PORT] = to_string(f)
                  /\ lastCall'.props[LINK_INPUT_NODE] = global_objects[t].props[1][NODE_ID]
                  /\ lastCall'.props[LINK_INPUT_PORT] = to_string(t)
                  /\ lastCall'.props[OBJECT_LINGER] = "1"
            /\ ExamplePorts =>
                  lastCall'.props =
                      (LINK_OUTPUT_NODE :> "2") @@ (LINK_OUTPUT_PORT :> "5") @@
                      (LINK_INPUT_NODE :> "3") @@ (LINK_INPUT_PORT :> "9") @@
                      (OBJECT_LINGER :> "1")
        /\ ( /\ Executes("LinkCreate")
             /\ BothResolve(global_objects, message.msg)
             /\ LinkFactoryPresent(global_objects) ) => CreateIssued ]_vars

\* C6 witness: the creation call for the ports of the example has been made
C6_Witness ==
    /\ ExamplePorts
    /\ pc = "drain"
    /\ lastCall.op = "create_object"
    /\ lastCall.seq = done
    /\ lastCall.factory = "link-factory-0"
    /\ lastCall.props[LINK_OUTPUT_PORT] = "5"
    /\ lastCall.props[LINK_INPUT_PORT] = "9"

\* C7: the endpoints of a creation or destroy call are Port objects.
C7_EndpointsArePorts ==
    [][ (CreateIssued \/ DestroyIssued) =>
          \A id \in DOMAIN global_objects :
              ( \/ IsEndpoint(global_objects, id, message.msg.from)
                \/ IsEndpoint(global_objects, id, message.msg.to) )
              => global_objects[id].type_ = "Port" ]_vars

\* C8: a LinkCreate whose endpoints resolve while no Link factory is in the
\* mirror is reported and discarded, and the bridge goes on to the next
\* message.
C8_MissingFactoryDiscarded ==
    [][ ( /\ Executes("LinkCreate")
          /\ \E f, t \in DOMAIN global_objects :
                /\ Resolves(global_objects, f, message.msg.from)
                /\ Resolves(global_objects, t, message.msg.to)
                /\ global_objects[f].type_ = "Port"
                /\ global_objects[t].type_ = "Port"
          /\ ~LinkFactoryPresent(global_objects) )
        => /\ lastCall' = lastCall
           /\ lastReport'.seq = message.seq
           /\ pc' = "drain"
           /\ done' = message.seq
           /\ pw_queue' = pw_queue ]_vars

\* C9: a LinkCreate with a descriptor that no object carries, or whose
\* endpoint has no node.id, issues no call, leaves the mirror as it is and
\* the bridge goes on to the messages queued after it.
C9_UnresolvedCreateDiscarded ==
    [][ ( /\ Executes("LinkCreate")
          /\ ~BothResolve(global_objects, message.msg) )
        => /\ lastCall' = lastCall
           /\ lastReport' = [text |-> "LinkCreate not found", seq |-> message.seq]
           /\ global_objects' = global_objects
           /\ pc' = "drain"
           /\ done' = message.seq
           /\ pw_queue' = pw_queue
           /\ ~poisoned' ]_vars

\* C9 witness: port 5 has no node.id, the LinkCreate was reported and the
\* next command is still in the queue of a running bridge
C9_Witness ==
    /\ 5 \in DOMAIN global_objects
    /\ Carries(global_objects[5], DescA)
    /\ NODE_ID \notin DOMAIN global_objects[5].props[1]
    /\ 3 \notin DOMAIN global_objects
    /\ 9 \in DOMAIN global_objects
    /\ Carries(global_objects[9], DescB)
    /\ lastReport = [text |-> "LinkCreate not found", seq |-> done]
    /\ pc = "drain"
    /\ pw_queue # <<>>

\* C10: a LinkDestroy that finds no object with the four derived link
\* properties, or whose endpoints do not resolve, issues no destroy, reports
\* "not found", leaves the mirror as it is and the bridge goes on.
C10_DestroyNotFound ==
    [][ ( /\ Executes("LinkDestroy")
          /\ ~LinkPresent(global_objects, message.msg) )
        => /\ lastCall' = lastCall
           /\ lastReport' = [text |-> "LinkDestroy not found", seq |-> message.seq]
           /\ global_objects' = global_objects
           /\ pc' = "drain"
           /\ done' = message.seq
           /\ pw_queue' = pw_queue
           /\ ~poisoned' ]_vars

\* C10 witness: both ports resolve, no call has ever been made, the destroy
\* was reported and the next command is still in the queue of a running bridge
C10_Witness ==
    /\ ExamplePorts
    /\ 7 \notin DOMAIN global_objects
    /\ lastCall.op = "connect"
    /\ lastReport = [text |-> "LinkDestroy not found", seq |-> done]
    /\ pc = "drain"
    /\ pw_queue # <<>>

\* the step ends a command in one of the three recoverable ways: an endpoint
\* that does not resolve, two ports that resolve while no Link factory is
\* advertised, a destroy whose link is not in the mirror
RecoverableError ==
    \/ /\ Executes("LinkCreate") \/ Executes("LinkDestroy")
       /\ ~BothResolve(global_objects, message.msg)
    \/ /\ Executes("LinkCreate")
       /\ \E f, t \in DOMAIN global_objects :
             /\ Resolves(global_objects, f, message.msg.from)
             /\ Resolves(global_objects, t, message.msg.to)
             /\ global_objects[f].type_ = "Port"
             /\ global_objects[t].type_ = "Port"
       /\ ~LinkFactoryPresent(global_objects)
    \/ /\ Executes("LinkDestroy")
       /\ BothResolve(global_objects, message.msg)
       /\ ~LinkPresent(global_objects, message.msg)

\* C11: a command that ends in a recoverable error (classes 1 to 3) leaves
\* the mutex unpoisoned, the UI thread where it was and the bridge draining
\* its queue, so that the UI can still lock the mirror and have further
\* commands executed.
C11_RecoverableErrorsSpareUi ==
    [][ RecoverableError
        => /\ ~poisoned'
           /\ ui' = ui
           /\ pc' = "drain" ]_vars

LinkKeys ==
    {LINK_OUTPUT_NODE, LINK_OUTPUT_PORT, LINK_INPUT_NODE, LINK_INPUT_PORT}

\* the last call created a link for the pair of the command in execution,
\* the two endpoints still resolve to the values that call sent, and an
\* object of the mirror carries these four values
CreatedLinkAdvertised ==
    /\ lastCall.op = "create_object"
    /\ lastCall.cmd = LinkCreate(message.msg.from, message.msg.to)
    /\ \E f, t \in DOMAIN global_objects :
          /\ Resolves(global_objects, f, message.msg.from)
          /\ Resolves(global_objects, t, message.msg.to)
          /\ lastCall.props[LINK_OUTPUT_NODE] = global_objects[f].props[1][NODE_ID]
          /\ lastCall.props[LINK_OUTPUT_PORT] = to_string(f)
          /\ lastCall.props[LINK_INPUT_NODE] = global_objects[t].props[1][NODE_ID]
          /\ lastCall.props[LINK_INPUT_PORT] = to_string(t)
    /\ \E l \in DOMAIN global_objects :
          /\ global_objects[l].props # None
          /\ LinkKeys \subseteq DOMAIN global_objects[l].props[1]
          /\ \A k \in LinkKeys : global_objects[l].props[1][k] = lastCall.props[k]

\* C12: after a LinkCreate issued its creation call and an object with the
\* four link values of that call is in the mirror, a LinkDestroy for the same
\* pair, with both ports as they were, issues destroy_global for the id of an
\* object that carries exactly the four values the creation sent.
C12_DestroyFindsCreatedLink ==
    [][ ( /\ Executes("LinkDestroy")
          /\ CreatedLinkAdvertised )
        => /\ DestroyIssued
           /\ lastCall'.id \in DOMAIN global_objects
           /\ global_objects[lastCall'.id].props # None
           /\ LinkKeys \subseteq DOMAIN global_objects[lastCall'.id].props[1]
           /\ \A k \in LinkKeys :
                 global_objects[lastCall'.id].props[1][k] = lastCall.props[k] ]_vars

\* C12 witness: the creation call for the ports of the example was made, the
\* link 2:5 -> 3:9 is in the mirror and the LinkDestroy for the same pair has
\* been dequeued
C12_Witness ==
    /\ pc = "exec"
    /\ message.msg = LinkDestroy(DescA, DescB)
    /\ CreatedLinkAdvertised
    /\ ExamplePorts
    /\ 7 \in DOMAIN global_objects
    /\ global_objects[7].type_ = "Link"

\* the predicate that holds of the dictionary of one object only
OnlyPropsOf(objects, object) ==
    [props \in Dicts(objects) \cup {object.props[1]} |-> props = object.props[1]]

\* C13: when the global listener has stored an object and the global_remove
\* listener then runs for its id, a property search with a predicate that
\* matches only that object returns nothing; right after the insertion the
\* same search returns the object.
C13_RemovedObjectNotFound ==
    [][ /\ ui_queue' = Append(ui_queue, PipewireRegistryGlobal)
           => \A o \in Universe :
                 ( OnGlobal(o) /\ o.props # None )
                 => find_object_by_props(global_objects',
                                         OnlyPropsOf(global_objects', o)) = Some(o)
        /\ ui_queue' = Append(ui_queue, PipewireRegistryGlobalRemove)
           => \A id \in DOMAIN global_objects :
                 ( OnGlobalRemove(id) /\ global_objects[id].props # None )
                 => find_object_by_props(global_objects',
                        OnlyPropsOf(global_objects', global_objects[id])) = None
      ]_vars

\* C13 witness: the link at id 7 was in the mirror when its destroy was
\* called, the global_remove listener has run since, and id 7 is not in the
\* mirror any more
C13_Witness ==
    /\ lastCall.op = "destroy_global"
    /\ lastCall.id = 7
    /\ 7 \notin DOMAIN global_objects
    /\ ui_queue = <<PipewireRegistryGlobalRemove>>
    /\ ExamplePorts

\* the Factory objects of the mirror that declare the protocol type of kind
FactoriesOf(objects, kind) ==
    {i \in DOMAIN objects :
        /\ objects[i].type_ = "Factory"
        /\ objects[i].props # None
        /\ FACTORY_TYPE_NAME \in DOMAIN objects[i].props[1]
        /\ objects[i].props[1][FACTORY_TYPE_NAME] = "PipeWire:Interface:" \o kind}

\* C14: get_factory_name(kind) returns a name only when a Factory object of
\* the mirror declares the protocol type string of the kind, the name is the
\* factory.name of such an object, and it returns nothing when there is no
\* such Factory; with the Factory 'PipeWire:Interface:Link' named
\* 'link-factory-0' in the mirror the answer for Link is 'link-factory-0'.
C14_FactoryNameFromFactory ==
    \A kind \in {"Link", "Node", "Port"} :
        LET name == get_factory_name(global_objects, kind)
        IN /\ name # None =>
                \E i \in FactoriesOf(global_objects, kind) :
                    /\ FACTORY_NAME \in DOMAIN global_objects[i].props[1]
                    /\ name = Some(global_objects[i].props[1][FACTORY_NAME])
           /\ FactoriesOf(global_objects, kind) = {} => name = None
           /\ ( /\ kind = "Link"
                /\ 1 \in DOMAIN global_objects
                /\ global_objects[1].type_ = "Factory"
                /\ global_objects[1].props =
                      Some((FACTORY_TYPE_NAME :> "PipeWire:Interface:Link") @@
                           (FACTORY_NAME :> "link-factory-0")) )
              => name = Some("link-factory-0")

\* C14 witness: the Link factory is in the mirror next to a Node that carries
\* factory properties, and the lookup for Link answers 'link-factory-0' and
\* the lookup for Node nothing
C14_Witness ==
    /\ {1, 7} \subseteq DOMAIN global_objects
    /\ global_objects[1].type_ = "Factory"
    /\ global_objects[7].type_ = "Node"
    /\ FACTORY_NAME \in DOMAIN global_objects[7].props[1]
    /\ get_factory_name(global_objects, "Link") = Some("link-factory-0")
    /\ get_factory_name(global_objects, "Node") = None

\* C15: every entry of the mirror is stored under the id of its object, no
\* two entries hold the same id, and an advertisement stores the advertised
\* object whole (kind, permissions, version, properties) under its id,
\* whatever was there, and leaves every other entry as it was.
C15_MirrorKeyedById ==
    [][ /\ \A i \in DOMAIN global_objects' : global_objects'[i].id = i
        /\ \A i, j \in DOMAIN global_objects' :
              global_objects'[i].id = global_objects'[j].id => i = j
        /\ ui_queue' = Append(ui_queue, PipewireRegistryGlobal)
           => \A o \in Universe :
                 OnGlobal(o)
                 => /\ DOMAIN global_objects' = DOMAIN global_objects \cup {o.id}
                    /\ global_objects'[o.id] = o
                    /\ \A j \in DOMAIN global_objects \ {o.id} :
                          global_objects'[j] = global_objects[j] ]_vars

\* C15 witness: port 9 declared node.id 3 when the destroy of the link was
\* called; id 9 has been advertised since and now holds the object without a
\* dictionary, with its version and permissions
C15_Witness ==
    /\ lastCall.op = "destroy_global"
    /\ 9 \in DOMAIN global_objects
    /\ global_objects[9] =
          [id |-> 9, permissions |-> "r", type_ |-> "Port", version |-> 4,
           props |-> None]
    /\ ui_queue = <<PipewireRegistryGlobal>>

\* the seven raw values LinkInfo::state knows
KnownRawStates ==
    {PW_LINK_STATE_ERROR, PW_LINK_STATE_UNLINKED, PW_LINK_STATE_INIT,
     PW_LINK_STATE_NEGOTIATING, PW_LINK_STATE_ALLOCATING,
     PW_LINK_STATE_PAUSED, PW_LINK_STATE_ACTIVE}

\* C16: every info event whose raw state is one of the seven known values is
\* decoded to the LinkState variant of the same name, Error with the message
\* of the event; the raw sequence Init, Negotiating, Allocating, Active is
\* seen as these four variants in this order; two events with distinct raw
\* states never decode to the same variant.
C16_StateDecodesByName ==
    /\ \A i \in 1..Len(link_states) :
          LET raw == link_infos[i].state
              decoded == link_states[i]
          IN /\ raw = PW_LINK_STATE_ERROR =>
                   decoded = [variant |-> "Error", message |-> link_infos[i].error]
             /\ raw = PW_LINK_STATE_UNLINKED => decoded = [variant |-> "Unlinked"]
             /\ raw = PW_LINK_STATE_INIT => decoded = [variant |-> "Init"]
             /\ raw = PW_LINK_STATE_NEGOTIATING => decoded = [variant |-> "Negotiating"]
             /\ raw = PW_LINK_STATE_ALLOCATING => decoded = [variant |-> "Allocating"]
             /\ raw = PW_LINK_STATE_PAUSED => decoded = [variant |-> "Paused"]
             /\ raw = PW_LINK_STATE_ACTIVE => decoded = [variant |-> "Active"]
    /\ \A i \in 1..Len(link_infos) :
          link_infos[i].state \in KnownRawStates => i <= Len(link_states)
    /\ ( /\ Len(link_infos) = 4
         /\ [i \in 1..4 |-> link_infos[i].state] =
               <<PW_LINK_STATE_INIT, PW_LINK_STATE_NEGOTIATING,
                 PW_LINK_STATE_ALLOCATING, PW_LINK_STATE_ACTIVE>> )
       => link_states = <<[variant |-> "Init"], [variant |-> "Negotiating"],
                          [variant |-> "Allocating"], [variant |-> "Active"]>>
    /\ \A i, j \in 1..Len(link_states) :
          link_infos[i].state # link_infos[j].state
          => link_states[i].variant # link_states[j].variant

\* C16 witness: the four events Init, Negotiating, Allocating, Active have
\* been delivered and decoded
C16_Witness ==
    /\ [i \in 1..Len(link_infos) |-> link_infos[i].state] =
          <<PW_LINK_STATE_INIT, PW_LINK_STATE_NEGOTIATING,
            PW_LINK_STATE_ALLOCATING, PW_LINK_STATE_ACTIVE>>
    /\ Len(link_states) = 4
    /\ link_states[4].variant = "Active"

\* C17: an info event whose raw state is none of the seven known values is
\* answered with a typed protocol-violation value for that link: it is not
\* decoded to any LinkState variant, the process is not aborted and the
\* bridge thread goes on.
C17_UnknownStateIsTyped ==
    \A i \in 1..Len(link_infos) :
        link_infos[i].state \notin KnownRawStates
        => /\ ~BridgeEnded
           /\ ui # "aborted"
           /\ i <= Len(link_states)
           /\ link_states[i] = [variant |-> "ProtocolViolation"]

\* the spawned closure panicked at one of the unwrap() calls of lines 86-89
SetupFailed ==
    /\ pc = "panicked"
    /\ ~poisoned
    /\ lastCall.op = "connect"
    /\ link_infos = <<>>

\* C18: when the connect or the registry acquisition fails, construction
\* fails synchronously: no caller is running with a wrapper it got from
\* PipewireWrapper::new, and the bridge has never been Running.
C18_SetupFailureFailsNew ==
    SetupFailed
    => /\ ui \notin {"run", "reading", "joining"}
       /\ sent = 0
       /\ ~core_info

\* C19: quit() returns Ok only when the bridge thread has stopped, and once
\* quit() has enqueued the stop request and blocks in join, the bridge thread
\* ends and quit() returns.
C19_QuitEndsBridge ==
    /\ [](quit_result = "ok" => pc = "stopped")
    /\ (ui = "joining") ~> (quit_result # "none" /\ pc \in {"stopped", "panicked"})

\* C20: deinit is called at most once, and only when the thread handle has
\* been taken and the bridge thread has stopped; a quit() that returned Ok has
\* deinitialised once, and a quit() on the stopped bridge after that returns
\* an error and leaves the count at one.
C20_DeinitOnceAfterJoin ==
    /\ deinit_count <= 1
    /\ deinit_count = 1 => ( pc = "stopped" /\ ~thread_handle )
    /\ quit_result = "ok" => deinit_count = 1
    /\ ( ui = "exited" /\ quit_result = "err" ) => deinit_count = 1

\* C20 witness: quit() returned Ok and deinitialised, and a second quit() on
\* the stopped bridge has returned an error
C20_Witness ==
    /\ ui = "exited"
    /\ pc = "stopped"
    /\ quit_result = "err"
    /\ deinit_count = 1
    /\ ~thread_handle

\* C21: when a registry listener sends its notification, the write it made
\* is in the mirror (the advertised object under its id, or the removed id
\* gone) and the guard is not held by the bridge; the UI can only dequeue a
\* notification that has been sent.
C21_WriteBeforeNotify ==
    [][ /\ ui_queue' = Append(ui_queue, PipewireRegistryGlobal)
           => /\ lock # "bridge"
              /\ callback.op = "global"
              /\ callback.id \in DOMAIN global_objects
              /\ global_objects[callback.id] = callback.object
        /\ ui_queue' = Append(ui_queue, PipewireRegistryGlobalRemove)
           => /\ lock # "bridge"
              /\ callback.op = "global_remove"
              /\ callback.id \notin DOMAIN global_objects
        /\ ( ui_queue # <<>> /\ ui_queue' = Tail(ui_queue) )
           => /\ ui' = ui
              /\ global_objects' = global_objects ]_vars

\* C21 witness: the advertisement of the link has been stored and notified,
\* and the UI holds the guard with the notification still to dequeue
C21_Witness ==
    /\ ui_queue = <<PipewireRegistryGlobal>>
    /\ 7 \in DOMAIN global_objects
    /\ global_objects[7].type_ = "Link"
    /\ callback = NoCallback
    /\ pc = "loop"
    /\ lock = "ui"

\* C30: a ready notification is in the queue only when core_info is set,
\* core_info becomes set only in the core info listener, and once set it
\* stays set.
C30_ReadyAfterCoreInfo ==
    [][ /\ ( \E i \in 1..Len(ui_queue') : ui_queue'[i] = PipewireMainLoopReady )
           => core_info'
        /\ core_info => core_info'
        /\ core_info' # core_info
           => /\ ~core_info
              /\ LoopIdle
              /\ callback'.op = "info"
              /\ \A i \in 1..Len(ui_queue) : ui_queue[i] # PipewireMainLoopReady
      ]_vars

\* C30 witness: the ready notification is the next the UI dequeues, and
\* core_info is set
C30_Witness ==
    /\ ui_queue # <<>>
    /\ Head(ui_queue) = PipewireMainLoopReady
    /\ core_info
    /\ ui = "run"
    /\ pc = "loop"

\* the step is one of a registry listener storing and notifying
RegistryStep ==
    /\ LoopIdle
    /\ \/ ui_queue' = Append(ui_queue, PipewireRegistryGlobal)
       \/ ui_queue' = Append(ui_queue, PipewireRegistryGlobalRemove)

\* C22: the map of the mirror changes only in a step of a registry listener
\* on the bridge thread; executing LinkCreate, LinkDestroy or the stop
\* request leaves it as it is, and so does every step of the UI thread.
C22_OnlyRegistryWritesMirror ==
    [][ /\ global_objects' # global_objects
           => /\ RegistryStep
              /\ ~UiStep
              /\ quit_result' = quit_result
        /\ ( \/ Executes("LinkCreate")
             \/ Executes("LinkDestroy")
             \/ Executes("PipewireMainLoopStopRequest") )
           => global_objects' = global_objects
        /\ ( UiStep \/ quit_result' # quit_result )
           => global_objects' = global_objects ]_vars

\* C22 witness: the creation call for the link has returned and the mirror
\* holds the factory and the two ports but no link
C22_Witness ==
    /\ lastCall.op = "create_object"
    /\ done = lastCall.seq
    /\ pc = "drain"
    /\ DOMAIN global_objects = {1, 5, 9}

\* C23: when the global_remove listener runs for an id that is not in the
\* mirror, the mirror stays as it is, the bridge thread goes on, and its next
\* step sends the removal notification.
C23_AbsentRemovalIsNoop ==
    [][ /\ ( /\ callback.op = "none"
             /\ callback'.op = "global_remove"
             /\ callback'.id \notin DOMAIN global_objects )
           => /\ global_objects' = global_objects
              /\ pc' = "listener"
              /\ ~poisoned'
              /\ ui' = ui
        /\ ( /\ pc = "listener"
             /\ callback.op = "global_remove"
             /\ pc' # pc )
           => /\ ui_queue' = Append(ui_queue, PipewireRegistryGlobalRemove)
              /\ pc' = "loop"
              /\ global_objects' = global_objects ]_vars

\* C23 witness: the listener has removed id 2, which the daemon never
\* advertised, the mirror still holds the two ports, and the bridge thread
\* is at the send of the notification
C23_Witness ==
    /\ {5, 9} \subseteq DOMAIN global_objects
    /\ callback = [op |-> "global_remove", id |-> 2]
    /\ pc = "listener"
    /\ ~poisoned

\* C24: once quit() has returned Ok the mirror holds no object.
C24_StoppedMirrorEmpty ==
    quit_result = "ok" => DOMAIN global_objects = {}

\* C29: destroy_global is issued only for the id of a Link object of the
\* mirror.
C29_DestroyOnlyLinks ==
    [][ DestroyIssued
        => /\ lastCall'.id \in DOMAIN global_objects
           /\ global_objects[lastCall'.id].type_ = "Link" ]_vars

\* ---- link.rs: the listeners of one link proxy ----

\* what the listener steps leave alone
HookFrame ==
    UNCHANGED <<global_objects, core_info, lock, poisoned, pw_queue, ui_queue,
                message, quit_flag, sent, done, lastCall, lastReport,
                quit_vars, link_vars, type_vars, graph_vars>>

\* the loop is delivering one info event of the link proxy
Emitting == pc = "listener" /\ callback.op = "link_info"

\* LinkListenerLocalBuilder::register, lines 92-137: a hook and a callback
\* box of its own for every listener, added to the proxy's hook list, and
\* the LinkListener handle that owns them. The caller is code of the loop
\* thread that runs between two info events.
Register(l) ==
    /\ LoopIdle
    /\ l \notin handles
    /\ removals[l] = 0
    /\ hooks' = hooks \cup {l}
    /\ handles' = handles \cup {l}
    /\ UNCHANGED <<pc, ui, callback, removals, running, pending, called, freed>>
    /\ HookFrame

\* the daemon sends an info update for the link: the loop starts walking
\* the hooks that add_listener (lines 120-127) has put on the proxy
LinkInfoEmit ==
    /\ LoopIdle
    /\ pc' = "listener"
    /\ callback' = [op |-> "link_info"]
    /\ pending' = hooks
    /\ called' = {}
    /\ UNCHANGED <<ui, hooks, handles, removals, running, freed>>
    /\ HookFrame

\* link_events_info, lines 93-100, entered with the data pointer of listener l
InvokeInfo(l) ==
    /\ Emitting
    /\ running = 0
    /\ l \in pending
    /\ running' = l
    /\ pending' = pending \ {l}
    /\ called' = called \cup {l}
    /\ UNCHANGED <<pc, ui, callback, hooks, handles, removals, freed>>
    /\ HookFrame

\* the info closure of the running listener returns
ReturnInfo ==
    /\ Emitting
    /\ running # 0
    /\ running' = 0
    /\ UNCHANGED <<pc, ui, callback, hooks, handles, removals, pending, called,
                   freed>>
    /\ HookFrame

\* every hook of the proxy has been walked
LinkInfoDone ==
    /\ Emitting
    /\ running = 0
    /\ pending = {}
    /\ pc' = "loop"
    /\ callback' = NoCallback
    /\ UNCHANGED <<ui, hooks, handles, removals, running, pending, called, freed>>
    /\ HookFrame

\* a drop that takes every hook off the proxy
DropListenerAll(l) ==
    /\ l \in handles
    /\ LoopIdle \/ (Emitting /\ running # 0)
    /\ handles' = handles \ {l}
    /\ hooks' = {}
    /\ pending' = {}
    /\ removals' = [removals EXCEPT ![l] = @ + 1]
    /\ IF running = l
       THEN /\ freed' = TRUE
            /\ \/ UNCHANGED <<pc, ui>>
               \/ pc' = "aborted" /\ ui' = "aborted"
       ELSE UNCHANGED <<pc, ui, freed>>
    /\ UNCHANGED <<callback, running, called>>
    /\ HookFrame

\* Drop for LinkListener, lines 64-68, and the drop of its fields (lines
\* 53-60): spa::hook::remove takes the hook off the list, then the events,
\* the hook and the callback box are freed. LinkListener is not Send, so the
\* drop runs on the loop thread: between two events, or inside an info
\* closure, which is `Fn + 'static` (line 83) and may own a handle, its own
\* included. In the last case the closure is freed while it executes, which
\* is undefined: it runs on, or the process ends.
DropListener(l) ==
    /\ l \in handles
    /\ LoopIdle \/ (Emitting /\ running # 0)
    /\ handles' = handles \ {l}
    /\ hooks' = hooks \ {l}
    /\ pending' = pending \ {l}
    /\ removals' = [removals EXCEPT ![l] = @ + 1]
    /\ IF running = l
       THEN /\ freed' = TRUE
            /\ \/ UNCHANGED <<pc, ui>>
               \/ pc' = "aborted" /\ ui' = "aborted"
       ELSE UNCHANGED <<pc, ui, freed>>
    /\ UNCHANGED <<callback, running, called>>
    /\ HookFrame

\* One link proxy and its listeners on a connected bridge.
ListenerNext ==
    \/ BridgeSetup
    \/ \E l \in Listeners : Register(l)
    \/ LinkInfoEmit
    \/ \E l \in Listeners : InvokeInfo(l)
    \/ ReturnInfo
    \/ LinkInfoDone
    \/ \E l \in Listeners : DropListener(l)

ListenerSpec == Init /\ [][ListenerNext]_vars

\* C25: a listener's hook is removed exactly once, at the drop of its
\* handle; once removed, its info callback is not entered again; and the
\* removal does not happen while that callback is executing.
C25_RemovedOnceOutsideCallback ==
    [][ \A l \in Listeners :
          /\ removals'[l] # removals[l] =>
                /\ l \in handles /\ l \notin handles'
                /\ removals[l] = 0 /\ removals'[l] = 1
                /\ l \notin hooks'
                /\ running # l
          /\ (running' = l /\ running # l) => removals[l] = 0 ]_vars

TypeFrame ==
    UNCHANGED <<global_objects, core_info, lock, poisoned, pw_queue, ui_queue,
                message, quit_flag, sent, done, lastCall, lastReport,
                quit_vars, link_vars, callback_vars, hook_vars, graph_vars>>

\* a global event whose type is kept as the daemon sent it
NewGlobalObjectRaw(id, type_) ==
    /\ LoopIdle
    /\ Len(conversions) < MaxGlobals
    /\ conversions' = Append(conversions,
                             [id |-> id, name |-> type_, type_ |-> Other(type_)])
    /\ UNCHANGED <<pc, ui, binds>>
    /\ TypeFrame

\* GlobalObject::new, lines 214-235, on the global event of a registry
\* listener: the interface name the daemon sent is parsed into the type_
\* of the object handed to the listener
NewGlobalObject(id, type_) ==
    /\ LoopIdle
    /\ Len(conversions) < MaxGlobals
    /\ conversions' = Append(conversions,
                             [id |-> id, name |-> type_, type_ |-> from_str(type_)])
    /\ UNCHANGED <<pc, ui, binds>>
    /\ TypeFrame

\* a bind that sends its request before it asks for the version
BindEager(object) ==
    /\ LoopIdle
    /\ Len(binds) < MaxGlobals
    /\ LET type_ == to_str(object.type_)
           version == client_version(object.type_)
       IN  /\ binds' = Append(binds, [id |-> object.id, type_ |-> type_,
                                      version |-> version.version])
           /\ IF version = InvalidObjectType
              THEN PanicInListener
              ELSE UNCHANGED <<pc, ui>>
    /\ UNCHANGED conversions
    /\ TypeFrame

\* Registry::bind, lines 43-64, called by code of the loop thread on an
\* object a listener was handed: the type string (line 45), the version
\* (line 46, which panics for Other), then the bind request (lines 48-56)
Bind(object) ==
    /\ LoopIdle
    /\ Len(binds) < MaxGlobals
    /\ LET type_ == to_str(object.type_)
           version == client_version(object.type_)
       IN  IF version = InvalidObjectType
           THEN /\ PanicInListener
                /\ UNCHANGED binds
           ELSE /\ binds' = Append(binds, [id |-> object.id, type_ |-> type_,
                                           version |-> version.version])
                /\ UNCHANGED <<pc, ui>>
    /\ UNCHANGED conversions
    /\ TypeFrame

\* The registry events and binds of a connected bridge, by object type.
TypeNext ==
    \/ BridgeSetup
    \/ \E type_ \in InterfaceNames : NewGlobalObject(Len(conversions) + 1, type_)
    \/ \E i \in DOMAIN conversions : Bind(conversions[i])

TypeSpec == Init /\ [][TypeNext]_vars

C28_BindUnknownFailsFirst ==
    [][ /\ \A i \in DOMAIN conversions :
              ( Bind(conversions[i]) /\ conversions[i].name \in UnknownNames ) =>
                 /\ client_version(conversions[i].type_).panic = "Invalid object type"
                 /\ binds' = binds
                 /\ pc' \in {"panicked", "aborted"}
        /\ binds' # binds =>
              from_str(binds'[Len(binds')].type_) \in KnownTypes ]_vars

\* C28 witness: the listener was handed an object of an unknown interface
\* and a Client; the bind of the Client was sent, and then the bind of the
\* unknown object panicked on the loop thread
C28_Witness ==
    /\ Len(conversions) = 2
    /\ conversions[1].name = "Badger"
    /\ Len(binds) = 1
    /\ binds[1] = [id |-> 2, type_ |-> "PipeWire:Interface:Client", version |-> 3]
    /\ pc = "panicked"

\* ---- the poll callback in the life of the bridge ----

\* C32: once the stop request has been executed, no create_object and no
\* destroy_global call is issued for a command that came after it.
C32_NoCallAfterStop ==
    [][ (CreateIssued \/ DestroyIssued) => ~quit_flag ]_vars

\* C33: a link command is dequeued only after the core info listener has
\* stored the info and sent the ready notification.
C33_NoCommandBeforeRunning ==
    [][ (pc = "drain" /\ pc' = "exec" /\ message'.msg \in LinkCommands)
            => core_info ]_vars

\* C36: the ready notification is sent only by the first core info
\* callback, the one that finds core_info unset.
C36_ReadyAtMostOnce ==
    [][ ui_queue' = Append(ui_queue, PipewireMainLoopReady) => ~core_info ]_vars

\* a link command that is still waiting, with no stop request ahead of it
CommandWaiting ==
    /\ ~quit_flag
    /\ \E i \in DOMAIN pw_queue :
          /\ pw_queue[i].msg \in LinkCommands
          /\ \A j \in 1..(i - 1) : pw_queue[j].msg # PipewireMainLoopStopRequest

\* C34: no command that was enqueued ahead of the stop request is left
\* unexecuted when the bridge thread has ended.
C34_NoCommandLost == BridgeEnded => ~CommandWaiting

\* ---- messages on the command queue that are not commands ----

\* ChannelMessage, channel.rs 3-11: the variants the timer callback has no
\* arm for
NonCommands ==
    {PipewireRegistryGlobal, PipewireRegistryGlobalRemove, PipewireMainLoopReady}

\* The poll callback against a command queue that also carries messages
\* that are not commands.
DrainNext ==
    \/ BridgeSetup
    \/ TimerFire
    \/ TimerRecv
    \/ TimerReturn
    \/ ExecLinkCreate
    \/ ExecLinkDestroy
    \/ ExecOther
    \/ \E global_object \in Globals : OnGlobal(global_object)
    \/ \E cmd \in NonCommands \cup LinkCommands : UiSend(cmd)
    \/ UiRecv

DrainSpec == Init /\ [][DrainNext]_vars

\* C38: the bridge consumes a message that is not a command without a call
\* into the daemon, without a report and without a change of the mirror, of
\* the stop flag or of the rest of the queue, and goes on to the next message.
C38_NonCommandNoEffect ==
    [][ (pc = "exec" /\ message.msg \in NonCommands /\ pc' # pc) =>
            /\ lastCall' = lastCall
            /\ lastReport' = lastReport
            /\ global_objects' = global_objects
            /\ quit_flag' = quit_flag
            /\ pw_queue' = pw_queue
            /\ lock' = lock
            /\ done' = message.seq
            /\ pc' = "drain" ]_vars

\* C38 witness: a registry-global message came first on the command queue
\* and has been consumed with no call made since the connection; the
\* LinkCreate behind it is the next message the callback takes
C38_Witness ==
    /\ message.msg = PipewireRegistryGlobal
    /\ done = message.seq
    /\ pc = "drain"
    /\ lastCall.op = "connect"
    /\ pw_queue # <<>>
    /\ Head(pw_queue).msg = LinkCreate(DescA, DescB)

\* ---- endpoint resolution ----

\* the ids of the objects whose properties hold the pair of a descriptor
Matches(objects, desc) ==
    {i \in DOMAIN objects :
        /\ objects[i].props # None
        /\ desc[1] \in DOMAIN objects[i].props[1]
        /\ objects[i].props[1][desc[1]] = desc[2]}

\* LinkCreate against everything the daemon may advertise.
ResolveNext ==
    \/ BridgeSetup
    \/ TimerFire
    \/ TimerRecv
    \/ TimerReturn
    \/ ExecLinkCreate
    \/ \E global_object \in Universe : OnGlobal(global_object)
    \/ UiSend(LinkCreate(DescA, DescB))
    \/ UiRecv

ResolveSpec == Init /\ [][ResolveNext]_vars

\* C37: the endpoints of a create_object call are those of the objects with
\* the smallest id among the objects that hold the pair of each descriptor:
\* the port values are those ids and the node values their node.id.
C37_SmallestIdResolves ==
    [][ CreateIssued =>
          LET from == MinOf(Matches(global_objects, message.msg.from))
              to == MinOf(Matches(global_objects, message.msg.to))
          IN  /\ lastCall'.props[LINK_OUTPUT_PORT] = to_string(from)
              /\ lastCall'.props[LINK_INPUT_PORT] = to_string(to)
              /\ lastCall'.props[LINK_OUTPUT_NODE] = global_objects[from].props[1][NODE_ID]
              /\ lastCall'.props[LINK_INPUT_NODE] = global_objects[to].props[1][NODE_ID] ]_vars

\* C37 witness: the Node with id 3 and the Port with id 5 both hold the
\* alias of the first descriptor, and the call was made with id 3
C37_Witness ==
    /\ lastCall.op = "create_object"
    /\ {3, 5} \subseteq Matches(global_objects, DescA)
    /\ lastCall.props[LINK_OUTPUT_PORT] = "3"

\* ---- a listener entered from inside a call of the poll callback ----

\* Lines 128-135 and 162 with the guard of line 99 alive: the library
\* dispatches a registry or core event from inside create_object or
\* destroy_global, and the listener runs state.lock() (lines 185, 210, 221)
\* on the thread that holds the guard. Such a lock() never returns: the
\* thread blocks for good, or it panics.
ReentrantListener ==
    /\ pc = "exec"
    /\ lock = "bridge"
    /\ \/ /\ message.msg.op = "LinkCreate"
          /\ LET properties == link_create_properties(global_objects,
                                   message.msg.from, message.msg.to)
                 factory == get_factory_name(global_objects, "Link")
             IN  /\ properties # None
                 /\ factory # None
                 /\ lastCall' = Call("create_object", factory[1], properties[1], 0)
       \/ /\ message.msg.op = "LinkDestroy"
          /\ LET object_id == link_destroy_object_id(global_objects,
                                  message.msg.from, message.msg.to)
             IN  /\ object_id # None
                 /\ lastCall' = Call("destroy_global", "", NoProps, object_id[1])
    /\ \/ /\ pc' = "blocked"
          /\ UNCHANGED <<lock, poisoned, ui>>
       \/ PanicInCallback
    /\ UNCHANGED <<global_objects, core_info, pw_queue, ui_queue, message,
                   quit_flag, sent, done, lastReport>>
    /\ UNCHANGED <<quit_vars, link_vars>>
    /\ UNCHANGED ext_vars

\* The plain session with a library that may dispatch events from inside
\* the calls of the poll callback.
ReentrantNext ==
    \/ Next
    \/ ReentrantListener

ReentrantSpec == Init /\ [][ReentrantNext]_vars

\* C35: the bridge thread is never blocked for good in a lock() on the
\* guard of the mirror.
C35_BridgeNeverStuckOnGuard == ~(pc = "blocked" /\ lock = "bridge")

\* ---- app.rs: the node graph built from the advertisements ----

\* The Nodes and Ports whose advertisements reach the UI, as the payload of
\* PipewireRegistryGlobal (channel.rs 5, app.rs 401-402).
GraphObjects ==
    { GlobalObject(2, "Node", Some((NODE_NAME :> "src"))),
      GlobalObject(3, "Node", Some((NODE_NAME :> "sink"))),
      GlobalObject(5, "Port",
          Some((NODE_ID :> "2") @@ (PORT_DIRECTION :> "out") @@ (PORT_ALIAS :> "a"))),
      GlobalObject(6, "Port",
          Some((NODE_ID :> "2") @@ (PORT_DIRECTION :> "in") @@ (PORT_ALIAS :> "c"))),
      GlobalObject(8, "Port",
          Some((NODE_ID :> "3") @@ (PORT_DIRECTION :> "out") @@ (PORT_ALIAS :> "d"))),
      GlobalObject(9, "Port",
          Some((NODE_ID :> "3") @@ (PORT_DIRECTION :> "in") @@ (PORT_ALIAS :> "b"))) }

\* PipewireObject::get_name, pipewire_wrapper.rs 269-296, for the keys the
\* objects of the model carry: the value of the first key of the list that
\* the properties hold
get_name(object) ==
    IF object.props = None THEN None
    ELSE IF FACTORY_NAME \in DOMAIN object.props[1]
         THEN Some(object.props[1][FACTORY_NAME])
    ELSE IF NODE_NAME \in DOMAIN object.props[1]
         THEN Some(object.props[1][NODE_NAME])
    ELSE IF PORT_ALIAS \in DOMAIN object.props[1]
         THEN Some(object.props[1][PORT_ALIAS])
    ELSE None

\* PipewireObject::get_prop as app.rs 437 and 441 call it
get_prop(object, k) ==
    IF object.props = None THEN None ELSE props_get(object.props[1], k)

\* str::parse::<u32>().ok(), app.rs 437-439, on the decimal strings of the
\* ids of the model
parse(text) ==
    LET hits == {n \in {o.id : o \in GraphObjects} : to_string(n) = text}
    IN IF hits = {} THEN None ELSE Some(CHOOSE n \in hits : TRUE)

\* NodeGraphExample::update, app.rs 397-484, for one PipewireRegistryGlobal
\* message: a Node with a name becomes a graph node and is entered in
\* pipewire_id_to_node_id (404-431); a Port becomes a param of the graph node
\* of its node.id, if that is in the map by now (433-468), and is reported as
\* "invalid port" otherwise
UpdateRegistryGlobal(object) ==
    /\ ui = "run"
    /\ object.id \notin processed
    /\ processed' = processed \cup {object.id}
    /\ IF object.type_ = "Node"
       THEN IF get_name(object) = None
            THEN UNCHANGED <<graph, pipewire_id_to_node_id>>
            ELSE LET node_id == Cardinality(DOMAIN graph) + 1
                 IN  /\ graph' = insert(graph, node_id, {})
                     /\ pipewire_id_to_node_id' =
                            insert(pipewire_id_to_node_id, object.id, node_id)
       ELSE IF object.type_ = "Port"
       THEN LET node_prop == get_prop(object, NODE_ID)
                pipewire_id == IF node_prop = None THEN None ELSE parse(node_prop[1])
                port_name == get_name(object)
                port_direction == get_prop(object, PORT_DIRECTION)
            IN  IF \/ pipewire_id = None
                   \/ pipewire_id[1] \notin DOMAIN pipewire_id_to_node_id
                   \/ port_name = None
                   \/ port_direction = None
                   \/ port_direction[1] \notin {"in", "out"}
                THEN UNCHANGED <<graph, pipewire_id_to_node_id>>
                ELSE LET node_id == pipewire_id_to_node_id[pipewire_id[1]]
                     IN  /\ graph' = [graph EXCEPT ![node_id] = @ \cup
                                {[name |-> port_name[1], kind |-> port_direction[1]]}]
                         /\ UNCHANGED pipewire_id_to_node_id
       ELSE UNCHANGED <<graph, pipewire_id_to_node_id>>
    /\ UNCHANGED <<global_objects, core_info, lock, poisoned, pw_queue, ui_queue,
                   pc, message, quit_flag, ui, sent, done, lastCall, lastReport,
                   quit_vars, link_vars, callback_vars, hook_vars, type_vars>>

\* The UI taking the advertisements of two Nodes and their Ports in any order.
GraphNext ==
    \E object \in GraphObjects : UpdateRegistryGlobal(object)

GraphSpec == Init /\ [][GraphNext]_vars

\* the Ports the daemon advertises for a Node
PortsOf(node) ==
    {o \in GraphObjects : o.type_ = "Port" /\ get_prop(o, NODE_ID) = Some(to_string(node.id))}

\* C31: once the UI has processed the advertisement of a Node and those of
\* all its Ports, in whatever order, the graph node of that Node has a param
\* of the right direction for each of the Ports.
C31_NoPortLost ==
    \A node \in {o \in GraphObjects : o.type_ = "Node"} :
        ({node.id} \cup {o.id : o \in PortsOf(node)}) \subseteq processed =>
            /\ node.id \in DOMAIN pipewire_id_to_node_id
            /\ \A port \in PortsOf(node) :
                  [name |-> get_name(port)[1], kind |-> get_prop(port, PORT_DIRECTION)[1]]
                      \in graph[pipewire_id_to_node_id[node.id]]
====
